---- MODULE Spec2Model ----
(***************************************************************************)
(* A model of aw-shuffle: the arena-backed, generation-augmented red-black *)
(* tree (src/aw-shuffle/src/rbtree/mod.rs), the in-memory shuffler         *)
(* (src/aw-shuffle/src/lib.rs) and the persistent shuffler                 *)
(* (src/aw-shuffle/src/persistent/rocksdb.rs).                             *)
(*                                                                         *)
(* Representation.  The arena is a sequence of node records; an arena slot *)
(* is a 1-based position in it, and None (an absent Option<usize>) is 0.   *)
(* Ranks handed to find_next are 0-based as in the source.  Every method   *)
(* that mutates the tree in place is an operator from a tree record        *)
(* [arena, root, size] to the tree record it leaves behind.                *)
(***************************************************************************)
EXTENDS Integers, Sequences, FiniteSets, TLC

\* ------------------------------------------------------------------ bounds

\* Items are 1..MaxItems.
MaxItems == 5

\* Largest generation handed to Rbtree::insert by the tree-level actions.
MaxInsertGen == 1

\* Stand-in for u64::MAX: generations are 0..U64Max and the overflow reset
\* of next_generation happens at U64Max.
U64Max == 2

\* ------------------------------------------------------------- primitives

None == 0

Item == 1..MaxItems

Min(x, y) == IF x < y THEN x ELSE y

Max(x, y) == IF x > y THEN x ELSE y

\* Rbtree::hash with the injected hasher: a fixed table with collisions, so
\* that the secondary ordering on the item decides between equal hashes and
\* the key order differs from the item order.
hash(item) == (2 * item) % 3

\* A faulty Node::cmp: the hash is ignored and keys are ordered by item alone.
cmp_item_only(h1, i1, h2, i2) ==
    IF i1 < i2 THEN -1
    ELSE IF i1 > i2 THEN 1
    ELSE 0

\* Ordering of (hash, item) keys, Node::cmp: -1 Less, 0 Equal, 1 Greater.
cmp(h1, i1, h2, i2) ==
    IF h1 < h2 THEN -1
    ELSE IF h1 > h2 THEN 1
    ELSE IF i1 < i2 THEN -1
    ELSE IF i1 > i2 THEN 1
    ELSE 0

EmptyTree == [arena |-> << >>, root |-> None, size |-> 0]

\* ------------------------------------------------------------------ Arena

\* Arena::alloc: push a node with no children; its slot is the new length.
alloc(a, item, h, generation, red, parent) ==
    Append(a, [item |-> item, hash |-> h, generation |-> generation,
               red |-> red, children |-> 0,
               min_gen |-> generation, max_gen |-> generation,
               index |-> Len(a) + 1, parent |-> parent,
               left |-> None, right |-> None])

\* Node::is_left_child
is_left_child(nb, c) == nb.left # None /\ c = nb.left

\* Node::other_child
other_child(nb, c) == IF is_left_child(nb, c) THEN nb.right ELSE nb.left

\* A faulty Arena::dealloc: the node moved into slot i keeps the index of the
\* slot it came from.
dealloc_stale_index(a, i) ==
    LET old == Len(a) IN
    IF i = old
    THEN [arena |-> SubSeq(a, 1, old - 1), moved_root |-> FALSE, removed |-> a[old]]
    ELSE
        LET removed == a[i]
            a1 == [SubSeq(a, 1, old - 1) EXCEPT ![i] = a[old]]
            m  == a1[i]
            a2 == IF m.left # None THEN [a1 EXCEPT ![m.left].parent = i] ELSE a1
            a3 == IF m.right # None THEN [a2 EXCEPT ![m.right].parent = i] ELSE a2
        IN  IF m.parent # None
            THEN [arena |->
                    IF is_left_child(a3[m.parent], old)
                    THEN [a3 EXCEPT ![m.parent].left = i]
                    ELSE [a3 EXCEPT ![m.parent].right = i],
                  moved_root |-> FALSE, removed |-> removed]
            ELSE [arena |-> a3, moved_root |-> TRUE, removed |-> removed]

\* Arena::dealloc: swap-remove slot i.  Yields the arena, the removed node and
\* whether the node moved into slot i is the root (it has no parent).
dealloc(a, i) ==
    LET old == Len(a) IN
    IF i = old
    THEN [arena |-> SubSeq(a, 1, old - 1), moved_root |-> FALSE, removed |-> a[old]]
    ELSE
        LET removed == a[i]
            a1 == [SubSeq(a, 1, old - 1) EXCEPT ![i] = [a[old] EXCEPT !.index = i]]
            m  == a1[i]
            a2 == IF m.left # None THEN [a1 EXCEPT ![m.left].parent = i] ELSE a1
            a3 == IF m.right # None THEN [a2 EXCEPT ![m.right].parent = i] ELSE a2
        IN  IF m.parent # None
            THEN [arena |->
                    IF is_left_child(a3[m.parent], old)
                    THEN [a3 EXCEPT ![m.parent].left = i]
                    ELSE [a3 EXCEPT ![m.parent].right = i],
                  moved_root |-> FALSE, removed |-> removed]
            ELSE [arena |-> a3, moved_root |-> TRUE, removed |-> removed]

\* ------------------------------------------------------------------- Node

\* Node::has_red_child
has_red_child(a, nb) ==
    IF nb.left # None /\ a[nb.left].red THEN TRUE
    ELSE IF nb.right # None THEN a[nb.right].red
    ELSE FALSE

\* Node::sole_red_child: <<"Left", l>>, <<"Right", r>> or <<"None", None>>.
sole_red_child(a, nb) ==
    IF nb.left = None /\ nb.right = None THEN <<"None", None>>
    ELSE IF nb.left = None
         THEN (IF a[nb.right].red THEN <<"Right", nb.right>> ELSE <<"None", None>>)
    ELSE IF nb.right = None
         THEN (IF a[nb.left].red THEN <<"Left", nb.left>> ELSE <<"None", None>>)
    ELSE IF a[nb.left].red /\ ~a[nb.right].red THEN <<"Left", nb.left>>
    ELSE IF ~a[nb.left].red /\ a[nb.right].red THEN <<"Right", nb.right>>
    ELSE <<"None", None>>

\* A faulty recalculate: the right child's generations are left out of the
\* aggregates.
recalculate_left_only(a, n) ==
    LET nb == a[n]
        c1 == IF nb.left # None THEN 1 + a[nb.left].children ELSE 0
        mn1 == IF nb.left # None THEN Min(nb.generation, a[nb.left].min_gen)
               ELSE nb.generation
        mx1 == IF nb.left # None THEN Max(nb.generation, a[nb.left].max_gen)
               ELSE nb.generation
        c2 == IF nb.right # None THEN c1 + 1 + a[nb.right].children ELSE c1
    IN  [a EXCEPT ![n].children = c2, ![n].min_gen = mn1, ![n].max_gen = mx1]

\* Node::recalculate: the aggregates of slot n from its own generation and
\* the aggregates stored in its children.
recalculate(a, n) ==
    LET nb == a[n]
        c0 == 0
        mx0 == nb.generation
        mn0 == nb.generation
        c1 == IF nb.left # None THEN c0 + 1 + a[nb.left].children ELSE c0
        mn1 == IF nb.left # None THEN Min(mn0, a[nb.left].min_gen) ELSE mn0
        mx1 == IF nb.left # None THEN Max(mx0, a[nb.left].max_gen) ELSE mx0
        c2 == IF nb.right # None THEN c1 + 1 + a[nb.right].children ELSE c1
        mn2 == IF nb.right # None THEN Min(mn1, a[nb.right].min_gen) ELSE mn1
        mx2 == IF nb.right # None THEN Max(mx1, a[nb.right].max_gen) ELSE mx1
    IN  [a EXCEPT ![n].children = c2, ![n].min_gen = mn2, ![n].max_gen = mx2]

\* Node::recalc_ancestors: recalculate node, then each ancestor up to the root.
RECURSIVE recalc_ancestors(_, _)
recalc_ancestors(a, node) ==
    LET a1 == recalculate(a, node) IN
    IF a1[node].parent = None THEN a1 ELSE recalc_ancestors(a1, a1[node].parent)

\* A faulty set_generation: the node keeps its generation.
set_generation_kept(a, node, next_gen) == a

\* Node::set_generation / Rbtree::set_generation
set_generation(a, node, next_gen) ==
    IF a[node].generation # next_gen
    THEN recalc_ancestors([a EXCEPT ![node].generation = next_gen], node)
    ELSE a

\* Result<_, _> of find_above.
Ok(n) == [ok |-> TRUE, val |-> n]

Err(k) == [ok |-> FALSE, val |-> k]

\* usize::saturating_sub
saturating_sub(x, y) == IF x > y THEN x - y ELSE 0

\* Node::find_above: the first node of the subtree at `node`, in in-order, with
\* rank >= i and generation <= g, or Err(size of the subtree).
RECURSIVE find_above(_, _, _, _)
find_above(a, node, i, g) ==
    LET nb == a[node] IN
    IF nb.min_gen > g \/ nb.children + 1 < i THEN Err(nb.children + 1)
    ELSE
        LET lr == IF nb.left # None THEN find_above(a, nb.left, i, g) ELSE Err(0)
        IN  IF lr.ok THEN lr
            ELSE
                LET left_children == lr.val IN
                IF i <= left_children /\ nb.generation <= g THEN Ok(node)
                ELSE
                    LET right_r == IF nb.right # None
                                   THEN find_above(a, nb.right,
                                                   saturating_sub(i, left_children + 1), g)
                                   ELSE Err(0)
                    IN  IF right_r.ok THEN right_r ELSE Err(nb.children + 1)

\* ----------------------------------------------------------------- Rbtree

\* Rbtree::find_node: the slot holding item, or None.
RECURSIVE find_from(_, _, _, _)
find_from(a, n, h, item) ==
    IF n = None THEN None
    ELSE LET c == cmp(h, item, a[n].hash, a[n].item) IN
         IF c = 0 THEN n
         ELSE IF c < 0 THEN find_from(a, a[n].left, h, item)
         ELSE find_from(a, a[n].right, h, item)

find_node(t, item) == find_from(t.arena, t.root, hash(item), item)

\* Rbtree::rotate_right: the left child of `parent` becomes its parent.
rotate_right(t, parent) ==
    LET a == t.arena
        pb == a[parent]
        l == pb.left
        lb == a[l]
        p_left == lb.right
        l_parent == pb.parent
        a1 == [a EXCEPT ![parent].left = p_left, ![parent].parent = l,
                        ![l].right = parent, ![l].parent = l_parent]
        a2 == IF p_left # None THEN [a1 EXCEPT ![p_left].parent = parent] ELSE a1
        a3 == IF l_parent # None
              THEN (IF is_left_child(a2[l_parent], parent)
                    THEN [a2 EXCEPT ![l_parent].left = l]
                    ELSE [a2 EXCEPT ![l_parent].right = l])
              ELSE a2
        new_root == IF l_parent # None THEN t.root ELSE l
    IN  [t EXCEPT !.arena = recalculate(recalculate(a3, parent), l), !.root = new_root]

\* Rbtree::rotate_left: the right child of `parent` becomes its parent.
rotate_left(t, parent) ==
    LET a == t.arena
        pb == a[parent]
        r == pb.right
        rb == a[r]
        p_right == rb.left
        r_parent == pb.parent
        a1 == [a EXCEPT ![parent].right = p_right, ![parent].parent = r,
                        ![r].left = parent, ![r].parent = r_parent]
        a2 == IF p_right # None THEN [a1 EXCEPT ![p_right].parent = parent] ELSE a1
        a3 == IF r_parent # None
              THEN (IF ~is_left_child(a2[r_parent], parent)
                    THEN [a2 EXCEPT ![r_parent].right = r]
                    ELSE [a2 EXCEPT ![r_parent].left = r])
              ELSE a2
        new_root == IF r_parent # None THEN t.root ELSE r
    IN  [t EXCEPT !.arena = recalculate(recalculate(a3, parent), r), !.root = new_root]

\* Option<_>: None is the empty sequence, Some(x) the one-element sequence.
NoneVal == << >>

Some(x) == <<x>>

\* Rbtree::fix_after_insert, one turn of its loop per call: c is the red node
\* whose parent may be red too.
RECURSIVE fix_after_insert(_, _)
fix_after_insert(t, c) ==
    LET a == t.arena
        p == a[c].parent
    IN
    IF p = None THEN [t EXCEPT !.arena[c].red = FALSE]
    ELSE IF ~a[p].red THEN t
    ELSE
        LET g == a[p].parent
            gb == a[g]
            ps == other_child(gb, p)
        IN
        IF ps # None /\ a[ps].red
        THEN fix_after_insert(
                [t EXCEPT !.arena = [a EXCEPT ![p].red = FALSE, ![ps].red = FALSE,
                                              ![g].red = TRUE]], g)
        ELSE IF is_left_child(gb, p)
        THEN
            LET inner == a[p].right # None /\ c = a[p].right
                t1 == IF inner THEN rotate_left(t, p) ELSE t
                pnd == IF inner THEN c ELSE p
                t2 == rotate_right(t1, g)
            IN  [t2 EXCEPT !.arena = [t2.arena EXCEPT ![pnd].red = FALSE, ![g].red = TRUE]]
        ELSE
            LET inner == a[p].left # None /\ c = a[p].left
                t1 == IF inner THEN rotate_right(t, p) ELSE t
                pnd == IF inner THEN c ELSE p
                t2 == rotate_left(t1, g)
            IN  [t2 EXCEPT !.arena = [t2.arena EXCEPT ![pnd].red = FALSE, ![g].red = TRUE]]

\* The descent loop of Rbtree::reinsert from slot c: the slot under which the
\* key belongs, or None when an equal key is met.
RECURSIVE reinsert_descend(_, _, _, _)
reinsert_descend(a, c, h, item) ==
    LET cn == a[c]
        o == cmp(h, item, cn.hash, cn.item)
        next == IF o < 0 THEN cn.left ELSE cn.right
    IN  IF o = 0 THEN None
        ELSE IF next = None THEN c
        ELSE reinsert_descend(a, next, h, item)

\* The ancestor loop of Rbtree::reinsert: from p to the root, one more child
\* and min_gen / max_gen widened to hold generation.
RECURSIVE reinsert_ancestors(_, _, _)
reinsert_ancestors(a, p, generation) ==
    LET pb == a[p]
        a1 == [a EXCEPT ![p].children = pb.children + 1,
                        ![p].max_gen = IF generation > pb.max_gen THEN generation ELSE @,
                        ![p].min_gen = IF generation > pb.max_gen THEN @
                                       ELSE IF generation < pb.min_gen THEN generation
                                       ELSE @]
    IN  IF pb.parent = None THEN a1 ELSE reinsert_ancestors(a1, pb.parent, generation)

\* Rbtree::reinsert: [tree, ret], ret the boolean it returns.
reinsert(t, item, h, generation) ==
    IF t.root = None
    THEN [tree |-> [arena |-> alloc(t.arena, item, h, generation, FALSE, None),
                    root |-> Len(t.arena) + 1,
                    size |-> t.size + 1],
          ret |-> TRUE]
    ELSE
        LET p == reinsert_descend(t.arena, t.root, h, item) IN
        IF p = None THEN [tree |-> t, ret |-> FALSE]
        ELSE
            LET node == Len(t.arena) + 1
                a1 == alloc(t.arena, item, h, generation, TRUE, p)
                pb == a1[p]
                a2 == IF cmp(h, item, pb.hash, pb.item) < 0
                      THEN [a1 EXCEPT ![p].left = node]
                      ELSE [a1 EXCEPT ![p].right = node]
                a3 == reinsert_ancestors(a2, p, generation)
            IN  [tree |-> fix_after_insert([arena |-> a3, root |-> t.root,
                                            size |-> t.size + 1], node),
                 ret |-> TRUE]

\* A faulty Rbtree::insert: an item already present has its generation
\* overwritten.
insert_overwrite(t, item, generation) ==
    IF find_node(t, item) # None
    THEN [tree |-> [t EXCEPT !.arena = set_generation(@, find_node(t, item), generation)],
          ret |-> FALSE]
    ELSE reinsert(t, item, hash(item), generation)

\* Rbtree::insert
insert(t, item, generation) == reinsert(t, item, hash(item), generation)

\* The last step of Rbtree::fix_black_node_before_delete: the sibling takes
\* the parent's colour, the parent and the outer nephew turn black, and the
\* parent is rotated towards node.
fix_black_final(t, node) ==
    LET a == t.arena
        p == a[node].parent
        s == other_child(a[p], node)
        a1 == [a EXCEPT ![s].red = a[p].red, ![p].red = FALSE]
    IN  IF is_left_child(a1[p], node)
        THEN LET r == a1[s].right
                 a2 == IF r # None THEN [a1 EXCEPT ![r].red = FALSE] ELSE a1
             IN  rotate_left([t EXCEPT !.arena = a2], p)
        ELSE LET l == a1[s].left
                 a2 == IF l # None THEN [a1 EXCEPT ![l].red = FALSE] ELSE a1
             IN  rotate_right([t EXCEPT !.arena = a2], p)

\* The step before it: a black sibling whose sole red child is the inner one
\* gets that child rotated onto it.
fix_black_inner(t, node) ==
    LET a == t.arena
        p == a[node].parent
        s == other_child(a[p], node)
        src == sole_red_child(a, a[s])
    IN  IF ~a[s].red
        THEN IF is_left_child(a[p], node)
             THEN IF src[1] = "Left"
                  THEN rotate_right([t EXCEPT !.arena = [a EXCEPT ![src[2]].red = FALSE,
                                                                   ![s].red = TRUE]], s)
                  ELSE t
             ELSE IF src[1] = "Right"
                  THEN rotate_left([t EXCEPT !.arena = [a EXCEPT ![src[2]].red = FALSE,
                                                                  ![s].red = TRUE]], s)
                  ELSE t
        ELSE t

\* Rbtree::fix_black_node_before_delete, one turn of its loop per call.
RECURSIVE fix_black_node_before_delete(_, _)
fix_black_node_before_delete(t, node) ==
    IF t.arena[node].parent = None THEN t
    ELSE
        LET a0 == t.arena
            p0 == a0[node].parent
            s0 == other_child(a0[p0], node)
            \* a red sibling is made black and rotated into the parent's place
            t1 == IF a0[s0].red
                  THEN LET ar == [a0 EXCEPT ![s0].red = FALSE, ![p0].red = TRUE]
                       IN  IF is_left_child(ar[p0], node)
                           THEN rotate_left([t EXCEPT !.arena = ar], p0)
                           ELSE rotate_right([t EXCEPT !.arena = ar], p0)
                  ELSE t
            a == t1.arena
            p == a[node].parent
            s == other_child(a[p], node)
        IN
        IF ~a[p].red /\ ~a[s].red /\ ~has_red_child(a, a[s])
        THEN fix_black_node_before_delete([t1 EXCEPT !.arena[s].red = TRUE], p)
        ELSE IF a[p].red /\ ~a[s].red /\ ~has_red_child(a, a[s])
        THEN [t1 EXCEPT !.arena = [a EXCEPT ![s].red = TRUE, ![p].red = FALSE]]
        ELSE fix_black_final(fix_black_inner(t1, node), node)

\* The successor loop of Rbtree::delete: the leftmost slot under s.
RECURSIVE leftmost(_, _)
leftmost(a, s) == IF a[s].left = None THEN s ELSE leftmost(a, a[s].left)

\* The end of Rbtree::delete: slot n, linked from nowhere, is deallocated and
\* the root index follows the root if the swap-remove moved it.
delete_dealloc(t, n) ==
    LET d == dealloc(t.arena, n) IN
    [tree |-> [arena |-> d.arena,
               root |-> IF d.moved_root THEN n ELSE t.root,
               size |-> t.size],
     ret |-> Some(<<d.removed.item, d.removed.hash>>)]

\* Rbtree::delete, the slot that is unlinked in place of n0: the in-order
\* successor when n0 has two children, else n0.
delete_target(a, n0) ==
    IF a[n0].left # None /\ a[n0].right # None THEN leftmost(a, a[n0].right) ELSE n0

\* A faulty Rbtree::delete: no swap with the successor, so the successor's
\* own payload is the one removed.
delete_swap_none(a, n0, s) == a

\* Rbtree::delete, the swap with the successor s: only item, hash and
\* generation change places.
delete_swap(a, n0, s) ==
    IF s = n0 THEN a
    ELSE [a EXCEPT ![n0].item = a[s].item, ![s].item = a[n0].item,
                   ![n0].hash = a[s].hash, ![s].hash = a[n0].hash,
                   ![n0].generation = a[s].generation,
                   ![s].generation = a[n0].generation]

\* The child of a node with at most one child, or None.
sole_child(nb) == IF nb.left # None THEN nb.left ELSE nb.right

\* Rbtree::delete, deleting the root n whose only child (or None) is c.
delete_root(t, n, c) ==
    IF c = None
    THEN delete_dealloc([t EXCEPT !.root = None], n)
    ELSE delete_dealloc([t EXCEPT !.root = c,
                                  !.arena = [t.arena EXCEPT ![c].parent = None,
                                                            ![c].red = FALSE]], n)

\* A faulty splice of Rbtree::delete: the child that replaces the node keeps
\* its colour.
delete_splice_keep_colour(a, n, p, c) ==
    IF is_left_child(a[p], n)
    THEN (IF c # None
          THEN [a EXCEPT ![c].parent = p, ![p].left = c]
          ELSE [a EXCEPT ![p].left = c])
    ELSE (IF c # None
          THEN [a EXCEPT ![c].parent = p, ![p].right = c]
          ELSE [a EXCEPT ![p].right = c])

\* Rbtree::delete, n or its child c is red: c, made black, takes n's place
\* under p.
delete_splice(a, n, p, c) ==
    IF is_left_child(a[p], n)
    THEN (IF c # None
          THEN [a EXCEPT ![c].red = FALSE, ![c].parent = p, ![p].left = c]
          ELSE [a EXCEPT ![p].left = c])
    ELSE (IF c # None
          THEN [a EXCEPT ![c].red = FALSE, ![c].parent = p, ![p].right = c]
          ELSE [a EXCEPT ![p].right = c])

\* Rbtree::delete, after fix_black_node_before_delete: n is cut from its
\* parent.
delete_cut(a, n) ==
    IF is_left_child(a[a[n].parent], n)
    THEN [a EXCEPT ![a[n].parent].left = None]
    ELSE [a EXCEPT ![a[n].parent].right = None]

\* Rbtree::delete, the non-root case up to the unlinking of n.
delete_unlink(t, n, c) ==
    IF t.arena[n].red \/ (c # None /\ t.arena[c].red)
    THEN [t EXCEPT !.arena = delete_splice(@, n, t.arena[n].parent, c)]
    ELSE [fix_black_node_before_delete(t, n) EXCEPT !.arena = delete_cut(@, n)]

\* A faulty delete_recalc: the ancestors keep the min_gen / max_gen they had
\* with the deleted node below them.
delete_recalc_none(a, n) == a

\* Rbtree::delete, the aggregates of n's former ancestors.
delete_recalc(a, n) ==
    IF a[n].parent # None THEN recalc_ancestors(a, a[n].parent) ELSE a

\* Rbtree::delete once the payload sits in slot n, which has at most one
\* child.
delete_at(t, n) ==
    IF t.arena[n].parent = None
    THEN delete_root(t, n, sole_child(t.arena[n]))
    ELSE delete_dealloc(
            [delete_unlink(t, n, sole_child(t.arena[n])) EXCEPT
                !.arena = delete_recalc(@, n)], n)

\* A faulty Rbtree::delete: the size counter is not decremented.
delete_found_keep_size(t, n0, n) ==
    delete_at([arena |-> delete_swap(t.arena, n0, n), root |-> t.root,
               size |-> t.size], n)

\* Rbtree::delete of the item in slot n0.
delete_found(t, n0, n) ==
    delete_at([arena |-> delete_swap(t.arena, n0, n), root |-> t.root,
               size |-> t.size - 1], n)

\* Rbtree::delete: [tree, ret], ret the Option<(item, hash)> it returns.
delete_slot(t, n0) ==
    IF n0 = None THEN [tree |-> t, ret |-> NoneVal]
    ELSE delete_found(t, n0, delete_target(t.arena, n0))

delete(t, item) == delete_slot(t, find_node(t, item))

\* A faulty reset: the generations are zeroed, the subtree aggregates are not.
reset_generations_only(t) ==
    [t EXCEPT !.arena = [i \in 1..Len(t.arena) |-> [t.arena[i] EXCEPT !.generation = 0]]]

\* Rbtree::reset: every node's generation and aggregates become 0.
reset(t) ==
    [t EXCEPT !.arena = [i \in 1..Len(t.arena) |->
                            [t.arena[i] EXCEPT !.generation = 0, !.min_gen = 0,
                                               !.max_gen = 0]]]

\* A panic of find_next (a failed assertion, or "Corrupt tree").
Panic == [ok |-> FALSE, val |-> None]

\* A faulty find_next: no second search from rank 0 when nothing qualifies at
\* or after index.
find_next_no_wrap(t, index, generation) ==
    IF ~(t.size > 0) \/ ~(index < t.size) \/ t.root = None THEN Panic
    ELSE LET r1 == find_above(t.arena, t.root, index, generation) IN
         IF r1.ok THEN r1 ELSE Panic

\* A faulty find_next: the two assertions on size and index are missing.
find_next_unasserted(t, index, generation) ==
    IF t.root = None THEN Panic
    ELSE IF find_above(t.arena, t.root, index, generation).ok
         THEN find_above(t.arena, t.root, index, generation)
         ELSE IF find_above(t.arena, t.root, 0, generation).ok
              THEN find_above(t.arena, t.root, 0, generation)
              ELSE Panic

\* Rbtree::find_next: Ok(slot), or Panic.
find_next(t, index, generation) ==
    IF ~(t.size > 0) \/ ~(index < t.size) \/ t.root = None THEN Panic
    ELSE LET r1 == find_above(t.arena, t.root, index, generation) IN
         IF r1.ok THEN r1
         ELSE LET r2 == find_above(t.arena, t.root, 0, generation) IN
              IF r2.ok THEN r2 ELSE Panic

\* Rbtree::size: the arena's length.
size(t) == Len(t.arena)

\* Rbtree::generations: <<min_gen, max_gen>> of the root, <<0, 0>> when empty.
generations(t) ==
    IF t.root # None
    THEN <<t.arena[t.root].min_gen, t.arena[t.root].max_gen>>
    ELSE <<0, 0>>

\* Rbtree::values
values(t) == [i \in 1..Len(t.arena) |-> t.arena[i].item]

\* A faulty dump: each item is paired with the largest generation of its
\* subtree.
dump_subtree_max(t) == [i \in 1..Len(t.arena) |-> <<t.arena[i].item, t.arena[i].max_gen>>]

\* Rbtree::dump
dump(t) == [i \in 1..Len(t.arena) |-> <<t.arena[i].item, t.arena[i].generation>>]

\* -------------------------------------------------- the random source, bias

\* Items of the shuffler-level specifications are 1..MaxShuffled.
MaxShuffled == 3

\* Largest n handed to next_n / unique_n.
MaxDraws == 2

\* The injected Rng.  One draw of a selection consumes a pair <<u, index>>:
\* the unit float of random::<f64>() is u / RndDen, which lies in [0, 1), and
\* index is what random_range(0..size) or Uniform::new(0, size).sample()
\* yields, any value of 0..size-1.
RndDen == 8

\* The unit floats drawn: 0, 5/8 and 7/8.  For every span of generations up
\* to U64Max they make floor((span + 1) * u^bias) take its least value, its
\* greatest (span itself) and one in between.
RndUnits == {0, 5, 7}

Rnd(sz) == RndUnits \X (0..(sz - 1))

RndSeqs(n, sz) == [1..n -> Rnd(sz)]

\* bias: "0", "1", "2" (the default) or "inf" (f64::INFINITY).
Biases == {"0", "1", "2", "inf"}

NewItemHandling == {"NeverSelected", "RecentlySelected", "Random"}

\* u64::saturating_add
saturating_add(x, y) == IF x + y > U64Max THEN U64Max ELSE x + y

\* A faulty biased_offset: an infinite bias is treated as no bias at all.
biased_offset_flat(x, bias, u) ==
    CASE bias = "0" -> x
      [] bias = "1" -> (x * u) \div RndDen
      [] bias = "2" -> (x * u * u) \div (RndDen * RndDen)
      [] bias = "inf" -> x

\* floor(x * (u / RndDen).powf(bias)): lib.rs lines 286-287.
biased_offset(x, bias, u) ==
    CASE bias = "0" -> x
      [] bias = "1" -> (x * u) \div RndDen
      [] bias = "2" -> (x * u * u) \div (RndDen * RndDen)
      [] bias = "inf" -> 0

\* Rng::random_range(lo..=hi) and random_range(0..n): the word r reduced into
\* the range.
random_range(lo, hi, r) == lo + (r % (hi - lo + 1))

\* ------------------------------------------------------- ShufflerGeneric

\* A faulty add_generation: a new item is placed above every generation of
\* the tree.
add_generation_above(t, new_items, r) == saturating_add(generations(t)[2], 1)

\* A faulty add_generation: every policy behaves as RecentlySelected.
add_generation_newest(t, new_items, r) == generations(t)[2]

\* ShufflerGeneric::add_generation
add_generation(t, new_items, r) ==
    LET g == generations(t) IN
    CASE new_items = "NeverSelected" -> g[1]
      [] new_items = "RecentlySelected" -> g[2]
      [] new_items = "Random" -> random_range(g[1], g[2], r)

\* A faulty next_generation: the generation handed out is the current maximum,
\* not its successor.
next_generation_stale(t) ==
    [gen |-> generations(t)[2], reset |-> FALSE, tree |-> t]

\* ShufflerGeneric::next_generation: [gen, reset, tree].
next_generation(t) ==
    LET max_gen == generations(t)[2] IN
    IF max_gen # U64Max
    THEN [gen |-> max_gen + 1, reset |-> FALSE, tree |-> t]
    ELSE [gen |-> 1, reset |-> TRUE, tree |-> reset(t)]

\* A faulty random_generation_internal: an offset above the span is not
\* clamped to it.
random_generation_internal_unclamped(min_gen, max_gen, bias, u) ==
    IF min_gen = max_gen THEN max_gen
    ELSE min_gen + biased_offset(saturating_add(max_gen - min_gen, 1), bias, u)

\* ShufflerGeneric::random_generation_internal
random_generation_internal(min_gen, max_gen, bias, u) ==
    IF min_gen = max_gen THEN max_gen
    ELSE LET span == max_gen - min_gen
             offset == biased_offset(saturating_add(span, 1), bias, u)
         IN  min_gen + (IF offset > span THEN span ELSE offset)

\* ShufflerGeneric::random_generation
random_generation(t, bias, u) ==
    random_generation_internal(generations(t)[1], generations(t)[2], bias, u)

\* A faulty random_generation_below: the limit is ignored, so a generation
\* stamped by the running call can be drawn again.
random_generation_below_unlimited(t, limit, bias, u) ==
    Ok(random_generation(t, bias, u))

\* ShufflerGeneric::random_generation_below: Ok(generation), or Panic when
\* the assertion max_gen >= min_gen fails.
random_generation_below(t, limit, bias, u) ==
    LET g == generations(t) IN
    IF g[2] = limit
    THEN IF limit - 1 >= g[1]
         THEN Ok(random_generation_internal(g[1], limit - 1, bias, u))
         ELSE Panic
    ELSE Ok(random_generation_internal(g[1], g[2], bias, u))

\* What a shuffler call leaves: the tree, the value returned and whether the
\* call panicked instead of returning.
Outcome(t, r, p) == [tree |-> t, ret |-> r, panic |-> p]

\* What add returns once Rbtree::insert has returned ins.
added(ins) == Outcome(ins.tree, ins.ret, FALSE)

\* ShufflerGeneric::add
add(t, new_items, item, r) ==
    added(insert(t, item, add_generation(t, new_items, r)))

\* What remove returns once Rbtree::delete has returned del: the item of the
\* deleted (item, generation) pair.
removed_item(del) ==
    Outcome(del.tree, IF del.ret = NoneVal THEN NoneVal ELSE Some(del.ret[1][1]), FALSE)

\* ShufflerGeneric::remove
remove(t, item) == removed_item(delete(t, item))

\* A faulty next: the picked item is stamped with the current largest
\* generation instead of the one next_generation hands out.
next_stamp_current(t, bias, rnds) ==
    IF size(t) = 0 THEN Outcome(t, NoneVal, FALSE)
    ELSE Outcome([t EXCEPT !.arena =
                     set_generation(@, find_next(t, rnds[1][2],
                                                 random_generation(t, bias, rnds[1][1])).val,
                                    generations(t)[2])],
                 Some(t.arena[find_next(t, rnds[1][2],
                                        random_generation(t, bias, rnds[1][1])).val].item),
                 FALSE)

\* ShufflerGeneric::next
next(t, bias, rnds) ==
    IF size(t) = 0 THEN Outcome(t, NoneVal, FALSE)
    ELSE
        LET rnd == rnds[1]
            random_gen == random_generation(t, bias, rnd[1])
            index == rnd[2]
            node == find_next(t, index, random_gen)
        IN  IF ~node.ok THEN Outcome(t, NoneVal, TRUE)
            ELSE LET ng == next_generation(t) IN
                 Outcome([ng.tree EXCEPT !.arena = set_generation(@, node.val, ng.gen)],
                         Some(ng.tree.arena[node.val].item), FALSE)

\* The loop of next_n (unique = FALSE) and of unique_n (unique = TRUE) over
\* the draws rnds, then the mapping of the selected nodes to their items.
RECURSIVE draw_loop(_, _, _, _, _, _)
draw_loop(t, bias, next_gen, unique, rnds, selected) ==
    IF rnds = << >>
    THEN Outcome(t, Some([k \in 1..Len(selected) |-> t.arena[selected[k]].item]), FALSE)
    ELSE
        LET rnd == Head(rnds)
            random_gen == IF unique
                          THEN random_generation_below(t, next_gen, bias, rnd[1])
                          ELSE Ok(random_generation(t, bias, rnd[1]))
            index == rnd[2]
            node == IF random_gen.ok THEN find_next(t, index, random_gen.val) ELSE Panic
        IN  IF ~node.ok THEN Outcome(t, NoneVal, TRUE)
            ELSE draw_loop([t EXCEPT !.arena = set_generation(@, node.val, next_gen)],
                           bias, next_gen, unique, Tail(rnds), Append(selected, node.val))

\* A faulty next_n: a call for no items returns before next_generation.
next_n_idle(t, bias, rnds) ==
    IF size(t) = 0 THEN Outcome(t, NoneVal, FALSE)
    ELSE IF rnds = << >> THEN Outcome(t, Some(<< >>), FALSE)
    ELSE draw_loop(next_generation(t).tree, bias, next_generation(t).gen, FALSE, rnds, << >>)

\* ShufflerGeneric::next_n, n = Len(rnds)
next_n(t, bias, rnds) ==
    IF size(t) = 0 THEN Outcome(t, NoneVal, FALSE)
    ELSE LET ng == next_generation(t) IN
         draw_loop(ng.tree, bias, ng.gen, FALSE, rnds, << >>)

\* A faulty unique_n: only the empty shuffler is refused, not n > size.
unique_n_unchecked(t, bias, n, rnds) ==
    IF size(t) = 0 THEN Outcome(t, NoneVal, FALSE)
    ELSE draw_loop(next_generation(t).tree, bias, next_generation(t).gen, TRUE, rnds, << >>)

\* ShufflerGeneric::unique_n; rnds are the draws it consumes when it draws.
unique_n(t, bias, n, rnds) ==
    IF size(t) = 0 \/ size(t) < n THEN Outcome(t, NoneVal, FALSE)
    ELSE LET ng == next_generation(t) IN
         draw_loop(ng.tree, bias, ng.gen, TRUE, rnds, << >>)

\* A faulty try_unique_n: no fallback to next_n when the items do not suffice.
try_unique_n_strict(t, bias, n, rnds) == unique_n(t, bias, n, rnds)

\* AwShuffler::try_unique_n (the trait's default method); rnds are the draws
\* of the call it forwards to.
try_unique_n(t, bias, n, rnds) ==
    IF size(t) = 0 \/ size(t) < n
    THEN next_n(t, bias, rnds)
    ELSE unique_n(t, bias, n, rnds)

\* ------------------------------------------- the persistent shuffler's store

\* rmp_serde::encode::to_vec of an item or a generation: MessagePack writes
\* an integer of 0..127 as the one byte of its value.
to_vec(x) == <<x>>

\* The MessagePack nil byte 0xc0, which Deserialize reads neither as an item
\* nor as a u64: the record a store holds that this program did not write.
Nil == 192

\* The keys a store can hold: the serialized items, and one key that does
\* not deserialize to an item.
Keys == {to_vec(i) : i \in Item} \cup {<<Nil>>}

\* T::deserialize of a key and u64::deserialize of a value succeed.
decodes(bytes) == bytes[1] # Nil

\* A store with no record: key |-> Option<value>.
EmptyStore == [k \in Keys |-> NoneVal]

\* persistent ShufflerGeneric::put_batch: one record per item, all with the
\* serialized gen.
put_batch(d, items, gen) ==
    [k \in Keys |-> IF \E i \in items : to_vec(i) = k THEN Some(to_vec(gen)) ELSE d[k]]

\* A faulty handle_reset: the reset is not broadcast to the store.
handle_reset_silent(d, t) == d

\* persistent ShufflerGeneric::handle_reset: every value of the tree is
\* rewritten with generation 0.
handle_reset(d, t) ==
    put_batch(d, {values(t)[i] : i \in 1..Len(values(t))}, 0)

\* persistent ShufflerGeneric::delete
store_delete(d, item) == [d EXCEPT ![to_vec(item)] = NoneVal]

\* No Error was returned.
NoError == "none"

\* What a call of the persistent shuffler leaves when it returns Ok: the
\* tree, the store, the value returned, whether it panicked.
PersistentOutcome(t, d, r, p) ==
    [tree |-> t, db |-> d, ret |-> r, panic |-> p, err |-> NoError]

\* What a call of the persistent shuffler leaves when it returns Err(e), e
\* one of "Serialization", "Deserialization", "DB".
Failed(t, d, e) == [tree |-> t, db |-> d, ret |-> NoneVal, panic |-> FALSE, err |-> e]

\* persistent add once the tree has inserted item at gen: the record is
\* written whether or not the item was new.
persistent_added(ins, d, item, gen) ==
    PersistentOutcome(ins.tree, put_batch(d, {item}, gen), ins.ret, FALSE)

\* persistent add with the initial generation gen chosen
persistent_add_at(t, d, item, gen) ==
    persistent_added(insert(t, item, gen), d, item, gen)

\* persistent ShufflerGeneric::add
persistent_add(t, d, new_items, item, r) ==
    persistent_add_at(t, d, item, add_generation(t, new_items, r))

\* A faulty persistent remove: the record is deleted whether or not the tree
\* held the item.
persistent_removed_always(removed, d, item) ==
    PersistentOutcome(removed.tree, store_delete(d, item), removed.ret, FALSE)

\* persistent remove once the tree has removed the item: the record is
\* deleted only if the tree held the item.
persistent_removed(removed, d, item) ==
    PersistentOutcome(removed.tree,
                      IF removed.ret # NoneVal THEN store_delete(d, item) ELSE d,
                      removed.ret, FALSE)

\* persistent ShufflerGeneric::remove
persistent_remove(t, d, item) == persistent_removed(remove(t, item), d, item)

\* The head of the persistent draws: next_generation, then handle_reset if
\* the generations were reset.
reset_store(d, ng) == IF ng.reset THEN handle_reset(d, ng.tree) ELSE d

\* A faulty tail of the persistent draws: the drawn items are written with
\* the generation before the one handed out.
write_drawn_stale(d, o, items, gen) ==
    PersistentOutcome(o.tree,
                      IF ~o.panic /\ o.ret # NoneVal THEN put_batch(d, items, gen - 1) ELSE d,
                      o.ret, o.panic)

\* The tail of the persistent draws: the items of Some(next) are written with
\* gen.
write_drawn(d, o, items, gen) ==
    PersistentOutcome(o.tree,
                      IF ~o.panic /\ o.ret # NoneVal THEN put_batch(d, items, gen) ELSE d,
                      o.ret, o.panic)

\* persistent ShufflerGeneric::next
persistent_next(t, d, bias, rnds) ==
    LET ng == next_generation(t)
        o == next(ng.tree, bias, rnds)
    IN  write_drawn(reset_store(d, ng), o,
                    IF o.ret # NoneVal THEN {o.ret[1]} ELSE {}, ng.gen)

\* The items of the Vec a draw of several items returned.
drawn(o) == IF o.ret # NoneVal THEN {o.ret[1][k] : k \in 1..Len(o.ret[1])} ELSE {}

\* persistent ShufflerGeneric::next_n
persistent_next_n(t, d, bias, rnds) ==
    LET ng == next_generation(t)
        o == next_n(ng.tree, bias, rnds)
    IN  write_drawn(reset_store(d, ng), o, drawn(o), ng.gen)

\* persistent ShufflerGeneric::unique_n
persistent_unique_n(t, d, bias, n, rnds) ==
    LET ng == next_generation(t)
        o == unique_n(ng.tree, bias, n, rnds)
    IN  write_drawn(reset_store(d, ng), o, drawn(o), ng.gen)

\* u64::deserialize of a stored value: the one byte of an integer of 0..127
\* is its value.
deserialize(bytes) == bytes[1]

\* persistent ShufflerGeneric::get returns Err(Deserialization): the item has
\* a record whose value is no u64.
get_fails(d, item) ==
    d[to_vec(item)] # NoneVal /\ ~decodes(d[to_vec(item)][1])

\* persistent ShufflerGeneric::get when it returns Ok: Option<generation> of
\* the item's record.
get(d, item) ==
    IF d[to_vec(item)] = NoneVal THEN NoneVal
    ELSE Some(deserialize(d[to_vec(item)][1]))

\* A call that leaves the store alone: what the tree-level call o returned,
\* beside the store d.
store_untouched(o, d) == PersistentOutcome(o.tree, d, o.ret, FALSE)

\* A faulty load: the stored generation is ignored and the item is added
\* afresh.
load_absent_fresh(t, d, new_items, item, r, rec) ==
    persistent_add(t, d, new_items, item, r)

\* PersistentShuffler::load of an item that is not in the tree, rec being
\* what get returned for it.
load_absent(t, d, new_items, item, r, rec) ==
    IF rec # NoneVal
    THEN store_untouched(insert(t, item, rec[1]), d)
    ELSE persistent_add(t, d, new_items, item, r)

\* PersistentShuffler::load on the persistent ShufflerGeneric
load(t, d, new_items, item, r) ==
    IF find_node(t, item) # None THEN PersistentOutcome(t, d, FALSE, FALSE)
    ELSE IF get_fails(d, item) THEN Failed(t, d, "Deserialization")
    ELSE load_absent(t, d, new_items, item, r, get(d, item))

\* A faulty soft_remove: the record goes with the item, as in remove.
soft_remove_hard(t, d, item) == persistent_remove(t, d, item)

\* PersistentShuffler::soft_remove on the persistent ShufflerGeneric
soft_remove(t, d, item) == store_untouched(remove(t, item), d)

\* --------------------------------------------- store calls that return Err

\* The Errors put_batch and delete return: encode::to_vec returned Err, or
\* the database did.  Either leaves the store as it was.
StoreErrors == {"Serialization", "DB"}

\* A faulty failing add: the item is inserted before put_batch is called.
persistent_add_failing_late(t, d, new_items, item, r, e) ==
    Failed(insert(t, item, add_generation(t, new_items, r)).tree, d, e)

\* persistent ShufflerGeneric::add when put_batch returns Err(e): `?` returns
\* it before tree.insert is reached.
persistent_add_failing(t, d, new_items, item, r, e) == Failed(t, d, e)

\* persistent remove once the tree has removed the item, when delete returns
\* Err(e); delete is called only if the tree held the item.
persistent_removed_failing(removed, d, item, e) ==
    IF removed.ret # NoneVal THEN Failed(removed.tree, d, e)
    ELSE persistent_removed(removed, d, item)

\* persistent ShufflerGeneric::remove when delete returns Err(e)
persistent_remove_failing(t, d, item, e) ==
    persistent_removed_failing(remove(t, item), d, item, e)

\* The tail of the persistent draws when put_batch returns Err(e): the tree
\* has the draw; put_batch is called only if the draw returned Some.
write_drawn_failing(d, o, e) ==
    IF ~o.panic /\ o.ret # NoneVal THEN Failed(o.tree, d, e)
    ELSE PersistentOutcome(o.tree, d, o.ret, o.panic)

\* A faulty failing draw: the store call fails before the draw touches the
\* tree next_generation left.
persistent_draw_failing_early(d, ng, o, late, e) == Failed(ng.tree, d, e)

\* The persistent draws when a store call returns Err(e), ng being what
\* next_generation left and o what the draw on ng.tree leaves.  The call
\* that fails is the first the draw makes, handle_reset if the generations
\* were reset, or, if late, the put_batch of the drawn items.
persistent_draw_failing(d, ng, o, late, e) ==
    IF ng.reset /\ ~late THEN Failed(ng.tree, d, e)
    ELSE write_drawn_failing(reset_store(d, ng), o, e)

\* persistent ShufflerGeneric::next when a store call returns Err(e)
persistent_next_failing(t, d, bias, rnds, late, e) ==
    LET ng == next_generation(t)
    IN  persistent_draw_failing(d, ng, next(ng.tree, bias, rnds), late, e)

\* persistent ShufflerGeneric::next_n when a store call returns Err(e)
persistent_next_n_failing(t, d, bias, rnds, late, e) ==
    LET ng == next_generation(t)
    IN  persistent_draw_failing(d, ng, next_n(ng.tree, bias, rnds), late, e)

\* persistent ShufflerGeneric::unique_n when a store call returns Err(e)
persistent_unique_n_failing(t, d, bias, n, rnds, late, e) ==
    LET ng == next_generation(t)
    IN  persistent_draw_failing(d, ng, unique_n(ng.tree, bias, n, rnds), late, e)

\* ------------------------------------------------- opening an existing store

\* db.iterator(Start): the keys in bytewise order.
KeyOrder == [i \in 1..MaxItems |-> to_vec(i)] \o <<(<<Nil>>)>>

\* The locals of load_all at the head of its loop: the tree, the valid items
\* not yet met, the keys the WriteBatch is to delete, the error it returns.
Scanning(t, valid) == [tree |-> t, valid |-> valid, batch |-> {}, err |-> NoError]

\* load_all, lines 258-279: the key or the value of a record does not
\* deserialize.
scan_undecodable(s, key, remove_error) ==
    IF remove_error THEN [s EXCEPT !.batch = @ \cup {key}]
    ELSE [s EXCEPT !.err = "Deserialization"]

\* scan_decoded inserting every record at generation 0.
scan_decoded_zero(s, key, item, gen, listed) ==
    IF listed /\ item \notin s.valid THEN [s EXCEPT !.batch = @ \cup {key}]
    ELSE [s EXCEPT !.tree = insert(@, item, 0).tree, !.valid = @ \ {item}]

\* load_all, lines 281-290: a record of item with generation gen; listed is
\* whether a list of valid items was supplied.
scan_decoded(s, key, item, gen, listed) ==
    IF listed /\ item \notin s.valid THEN [s EXCEPT !.batch = @ \cup {key}]
    ELSE [s EXCEPT !.tree = insert(@, item, gen).tree, !.valid = @ \ {item}]

\* load_all, the body of the loop over the records.
scan_record(s, key, value, remove_error, listed) ==
    IF ~decodes(key) \/ ~decodes(value) THEN scan_undecodable(s, key, remove_error)
    ELSE scan_decoded(s, key, deserialize(key), deserialize(value), listed)

\* load_all, the loop over the records of d with keys `keys`; it ends at the
\* first error.
RECURSIVE scan(_, _, _, _, _)
scan(d, s, keys, remove_error, listed) ==
    IF keys = << >> \/ s.err # NoError THEN s
    ELSE scan(d,
              IF d[Head(keys)] = NoneVal THEN s
              ELSE scan_record(s, Head(keys), d[Head(keys)][1], remove_error, listed),
              Tail(keys), remove_error, listed)

\* load_all, lines 298-306: the valid items that had no record, taken in the
\* order `order` of the hash set's iterator, each with its own random word
\* rs[item]; puts are the records the WriteBatch is to write.
RECURSIVE add_new(_, _, _, _, _)
RECURSIVE add_new_at(_, _, _, _, _, _)
add_new(t, puts, order, new_items, rs) ==
    IF order = << >> THEN [tree |-> t, puts |-> puts]
    ELSE add_new_at(t, puts, order, new_items, rs,
                    add_generation(t, new_items, rs[Head(order)]))

add_new_at(t, puts, order, new_items, rs, gen) ==
    add_new(insert(t, Head(order), gen).tree, puts \cup {<<Head(order), gen>>},
            Tail(order), new_items, rs)

\* db.write(batch): the deletes, then the puts.
write_batch(d, deletes, puts) ==
    [k \in Keys |->
        IF \E p \in puts : to_vec(p[1]) = k
        THEN Some(to_vec((CHOOSE p \in puts : to_vec(p[1]) = k)[2]))
        ELSE IF k \in deletes THEN NoneVal ELSE d[k]]

\* load_all from line 308 on: fresh is what add_new left.
load_all_write(d, deletes, fresh) ==
    PersistentOutcome(fresh.tree, write_batch(d, deletes, fresh.puts), NoneVal, FALSE)

\* The members of the set `valid` in the order the sequence `order` gives them.
in_iteration_order(valid, order) == SelectSeq(order, LAMBDA i : i \in valid)

\* load_all_scanned without the batch.clear() of keep_unrecognized.
load_all_scanned_unkept(d, s, new_items, keep_unrecognized, order, rs) ==
    IF s.err # NoError THEN Failed(EmptyTree, d, s.err)
    ELSE load_all_write(d, s.batch,
                        add_new(s.tree, {}, in_iteration_order(s.valid, order),
                                new_items, rs))

\* load_all from line 293 on: s is what the loop left.
load_all_scanned(d, s, new_items, keep_unrecognized, order, rs) ==
    IF s.err # NoError THEN Failed(EmptyTree, d, s.err)
    ELSE load_all_write(d, IF keep_unrecognized THEN {} ELSE s.batch,
                        add_new(s.tree, {}, in_iteration_order(s.valid, order),
                                new_items, rs))

\* ShufflerGeneric::load_all on the tree of a new shuffler; items is
\* None or Some(the set of the valid items).
load_all(d, new_items, remove_error, keep_unrecognized, items, order, rs) ==
    load_all_scanned(d,
                     scan(d, Scanning(EmptyTree, IF items = NoneVal THEN {} ELSE items[1]),
                          KeyOrder, remove_error, items # NoneVal),
                     new_items, keep_unrecognized, order, rs)

\* A faulty failing load_all: the batch collected so far is written before
\* the Err is returned.
load_all_failed_flushed(d, s, e) ==
    Failed(EmptyTree, write_batch(d, s.batch, {}), IF s.err # NoError THEN s.err ELSE e)

\* load_all returns Err: no shuffler is made; the Error is the one the scan
\* ended with if it ended with one, else e.
load_all_failed(d, s, e) == Failed(EmptyTree, d, IF s.err # NoError THEN s.err ELSE e)

\* load_all when the database iterator returns Err at its k-th key: the
\* records before it have been scanned.
load_all_read_error(d, remove_error, items, k) ==
    load_all_failed(d,
                    scan(d, Scanning(EmptyTree, IF items = NoneVal THEN {} ELSE items[1]),
                         SubSeq(KeyOrder, 1, k - 1), remove_error, items # NoneVal),
                    "DB")

\* load_all from line 293 on when encode::to_vec returns Err for the item
\* bad: the call fails if bad is among the new items.
load_all_scanned_unencodable(d, s, new_items, keep_unrecognized, order, rs, bad) ==
    IF s.err # NoError \/ bad \in s.valid THEN load_all_failed(d, s, "Serialization")
    ELSE load_all_scanned(d, s, new_items, keep_unrecognized, order, rs)

\* load_all when encode::to_vec returns Err for the item bad
load_all_unencodable(d, new_items, remove_error, keep_unrecognized, items, order, rs, bad) ==
    load_all_scanned_unencodable(
        d,
        scan(d, Scanning(EmptyTree, IF items = NoneVal THEN {} ELSE items[1]),
             KeyOrder, remove_error, items # NoneVal),
        new_items, keep_unrecognized, order, rs, bad)

\* ------------------------------------------------------------------ state

VARIABLES
    tree,       \* ShufflerGeneric.tree: the Rbtree [arena, root, size]
    bias,       \* ShufflerGeneric.bias
    new_items,  \* ShufflerGeneric.new_items
    db,         \* persistent ShufflerGeneric.db: key |-> Option<value>
    live,       \* the items the caller has added and not removed since
    panicked    \* a call panicked instead of returning

vars == <<tree, bias, new_items, db, live, panicked>>

\* The draws a call of n selections consumes: none when it returns early.
DrawsOf(early, n) == IF early THEN {<< >>} ELSE RndSeqs(n, size(tree))

\* Shuffler::default, and the persistent Shuffler::new_default over a store
\* created by the call: an empty tree, bias 2.0, NewItemHandling::NeverSelected.
Init ==
    /\ tree = EmptyTree
    /\ bias = "2"
    /\ new_items = "NeverSelected"
    /\ db = EmptyStore
    /\ live = {}
    /\ panicked = FALSE

\* A call of the in-memory shuffler ends: the tree it leaves, and whether it
\* panicked.  No call follows a panic, which aborts the program.
Returns(o) ==
    /\ ~panicked
    /\ tree' = o.tree
    /\ panicked' = o.panic
    /\ UNCHANGED <<bias, new_items, db>>

\* AwShuffler::add on ShufflerGeneric
Add(item, r) ==
    /\ \E o \in {add(tree, new_items, item, r)} : Returns(o)
    /\ live' = live \cup {item}

\* AwShuffler::remove on ShufflerGeneric
Remove(item) ==
    /\ \E o \in {remove(tree, item)} : Returns(o)
    /\ live' = live \ {item}

\* AwShuffler::next on ShufflerGeneric
DrawNext(rnds) ==
    /\ \E o \in {next(tree, bias, rnds)} : Returns(o)
    /\ UNCHANGED live

\* AwShuffler::next_n on ShufflerGeneric
NextN(rnds) ==
    /\ \E o \in {next_n(tree, bias, rnds)} : Returns(o)
    /\ UNCHANGED live

\* AwShuffler::unique_n on ShufflerGeneric
UniqueN(n, rnds) ==
    /\ \E o \in {unique_n(tree, bias, n, rnds)} : Returns(o)
    /\ UNCHANGED live

\* AwShuffler::try_unique_n on ShufflerGeneric
TryUniqueN(n, rnds) ==
    /\ \E o \in {try_unique_n(tree, bias, n, rnds)} : Returns(o)
    /\ UNCHANGED live

\* The in-memory shuffler: any call with any outcome of the random source.
Next ==
    \/ \E item \in 1..MaxShuffled, r \in 0..U64Max : Add(item, r)
    \/ \E item \in 1..MaxShuffled : Remove(item)
    \/ \E rnds \in DrawsOf(size(tree) = 0, 1) : DrawNext(rnds)
    \/ \E n \in 0..MaxDraws : \E rnds \in DrawsOf(size(tree) = 0, n) : NextN(rnds)
    \/ \E n \in 0..MaxDraws :
           \E rnds \in DrawsOf(size(tree) = 0 \/ size(tree) < n, n) : UniqueN(n, rnds)
    \/ \E n \in 0..MaxDraws : \E rnds \in DrawsOf(size(tree) = 0, n) : TryUniqueN(n, rnds)

Spec == Init /\ [][Next]_vars

\* ---------------------------------------------------- the tree on its own

\* Rbtree::insert
Insert(item, generation) ==
    /\ tree' = insert(tree, item, generation).tree
    /\ live' = live \cup {item}
    /\ UNCHANGED <<bias, new_items, db, panicked>>

\* Rbtree::delete
Delete(item) ==
    /\ tree' = delete(tree, item).tree
    /\ live' = live \ {item}
    /\ UNCHANGED <<bias, new_items, db, panicked>>

\* Rbtree::set_generation on a live slot
SetGeneration(node, next_gen) ==
    /\ node \in 1..Len(tree.arena)
    /\ tree' = [tree EXCEPT !.arena = set_generation(@, node, next_gen)]
    /\ UNCHANGED <<bias, new_items, db, live, panicked>>

\* Rbtree::reset
Reset ==
    /\ tree' = reset(tree)
    /\ UNCHANGED <<bias, new_items, db, live, panicked>>

\* The tree driven through its own interface.
TreeNext ==
    \/ \E item \in Item, generation \in 0..MaxInsertGen : Insert(item, generation)
    \/ \E item \in Item : Delete(item)
    \/ \E node \in 1..MaxItems, next_gen \in 0..U64Max : SetGeneration(node, next_gen)
    \/ Reset

SpecTree == Init /\ [][TreeNext]_vars

\* Items of the specification of the tree's shape.
MaxShapeItems == 7

\* The tree grown and shrunk by insert and delete alone, every item with
\* generation 0: more items, so deeper trees and more of the rebalancing.
ShapeNext ==
    \/ \E item \in 1..MaxShapeItems : Insert(item, 0)
    \/ \E item \in 1..MaxShapeItems : Delete(item)

SpecShape == Init /\ [][ShapeNext]_vars

\* ------------------------------------------------- the persistent shuffler

\* A call of the persistent shuffler returns Ok, or panics.  No call follows
\* a panic.
PersistentReturns(o) ==
    /\ ~panicked
    /\ tree' = o.tree
    /\ db' = o.db
    /\ panicked' = o.panic
    /\ UNCHANGED <<bias, new_items>>

\* AwShuffler::add on the persistent ShufflerGeneric
PersistentAdd(item, r) ==
    /\ \E o \in {persistent_add(tree, db, new_items, item, r)} : PersistentReturns(o)
    /\ live' = live \cup {item}

\* AwShuffler::remove on the persistent ShufflerGeneric
PersistentRemove(item) ==
    /\ \E o \in {persistent_remove(tree, db, item)} : PersistentReturns(o)
    /\ live' = live \ {item}

\* AwShuffler::next on the persistent ShufflerGeneric
PersistentNext(rnds) ==
    /\ \E o \in {persistent_next(tree, db, bias, rnds)} : PersistentReturns(o)
    /\ UNCHANGED live

\* AwShuffler::next_n on the persistent ShufflerGeneric
PersistentNextN(rnds) ==
    /\ \E o \in {persistent_next_n(tree, db, bias, rnds)} : PersistentReturns(o)
    /\ UNCHANGED live

\* AwShuffler::unique_n on the persistent ShufflerGeneric
PersistentUniqueN(n, rnds) ==
    /\ \E o \in {persistent_unique_n(tree, db, bias, n, rnds)} : PersistentReturns(o)
    /\ UNCHANGED live

\* The persistent shuffler driven by add, remove and the draws, every store
\* operation succeeding.
PersistentCalls ==
    \/ \E item \in 1..MaxShuffled, r \in 0..U64Max : PersistentAdd(item, r)
    \/ \E item \in 1..MaxShuffled : PersistentRemove(item)
    \/ \E rnds \in DrawsOf(size(tree) = 0, 1) : PersistentNext(rnds)
    \/ \E n \in 0..MaxDraws : \E rnds \in DrawsOf(size(tree) = 0, n) : PersistentNextN(rnds)
    \/ \E n \in 0..MaxDraws :
           \E rnds \in DrawsOf(size(tree) = 0 \/ size(tree) < n, n) :
               PersistentUniqueN(n, rnds)

SpecPersist == Init /\ [][PersistentCalls]_vars

\* PersistentShuffler::load on the persistent ShufflerGeneric
Load(item, r) ==
    /\ \E o \in {load(tree, db, new_items, item, r)} : PersistentReturns(o)
    /\ live' = live \cup {item}

\* PersistentShuffler::soft_remove on the persistent ShufflerGeneric
SoftRemove(item) ==
    /\ \E o \in {soft_remove(tree, db, item)} : PersistentReturns(o)
    /\ live' = live \ {item}

\* The persistent shuffler allowed to diverge from its store: items come and
\* go through load and soft_remove as well as add and remove, and next draws.
DivergingCalls ==
    \/ \E item \in 1..MaxShuffled, r \in 0..U64Max : PersistentAdd(item, r)
    \/ \E item \in 1..MaxShuffled : PersistentRemove(item)
    \/ \E item \in 1..MaxShuffled, r \in 0..U64Max : Load(item, r)
    \/ \E item \in 1..MaxShuffled : SoftRemove(item)
    \/ \E rnds \in DrawsOf(size(tree) = 0, 1) : PersistentNext(rnds)

SpecDiverge == Init /\ [][DivergingCalls]_vars

\* ------------------------------------------------ the store opened and reopened

\* What a record's value can be in a store found at open: absent, the
\* generations 0 and 1, or bytes that are no u64.
FoundValues == {NoneVal, Some(to_vec(0)), Some(to_vec(1)), Some(<<Nil>>)}

\* The stores found at open: records of the items 1..MaxShuffled, written by
\* an earlier run or by another program, and possibly a record whose key is
\* no item.
FoundStores ==
    {d \in [Keys -> FoundValues] :
        /\ \A i \in (MaxShuffled + 1)..MaxItems : d[to_vec(i)] = NoneVal
        /\ d[<<Nil>>] \in {NoneVal, Some(to_vec(0))}}

\* The `items` argument of Shuffler::new: None, or Some(list), the list
\* taken as the set it is collected into.
ValidLists == {NoneVal} \cup {Some(V) : V \in SUBSET (1..MaxShuffled)}

\* The orders in which the hash set of the valid items can be iterated.
Orders ==
    {order \in [1..MaxShuffled -> 1..MaxShuffled] :
        \A i, j \in 1..MaxShuffled : order[i] = order[j] => i = j}

\* The Options::new_item_handling the store is opened with.  Neither policy
\* consumes a random word, so load_all is handed NoWords.
OpenHandling == {"NeverSelected", "RecentlySelected"}

NoWords == [i \in 1..MaxShuffled |-> 0]

\* Shuffler::new returned Ok(shuffler): o is what load_all left, p the
\* Options::new_item_handling.
Opened(o, p) ==
    /\ o.err = NoError
    /\ tree = o.tree
    /\ db = o.db
    /\ bias = "2"
    /\ new_items = p
    /\ live = {values(o.tree)[i] : i \in 1..Len(values(o.tree))}
    /\ panicked = FALSE

\* Shuffler::new over a store that exists, with any options and items.
InitOpen ==
    \E d \in FoundStores, p \in OpenHandling, remove_error \in BOOLEAN,
       keep_unrecognized \in BOOLEAN, items \in ValidLists, order \in Orders :
        \E o \in {load_all(d, p, remove_error, keep_unrecognized, items, order, NoWords)} :
            Opened(o, p)

\* The shuffler is dropped and Shuffler::new is called on its store.  A call
\* that returns Err makes no shuffler and leaves the store as it was.
Reopen(p, remove_error, keep_unrecognized, items, order) ==
    /\ ~panicked
    /\ \E o \in {load_all(db, p, remove_error, keep_unrecognized, items, order, NoWords)} :
          /\ o.err = NoError
          /\ tree' = o.tree
          /\ db' = o.db
          /\ live' = {values(o.tree)[i] : i \in 1..Len(values(o.tree))}
    /\ new_items' = p
    /\ UNCHANGED <<bias, panicked>>

\* A persistent shuffler over a store that outlives it.
OpenCalls ==
    \/ \E p \in OpenHandling, remove_error \in BOOLEAN, keep_unrecognized \in BOOLEAN,
          items \in ValidLists, order \in Orders :
           Reopen(p, remove_error, keep_unrecognized, items, order)
    \/ \E item \in 1..MaxShuffled, r \in 0..U64Max : Load(item, r)
    \/ \E rnds \in DrawsOf(size(tree) = 0, 1) : PersistentNext(rnds)

SpecOpen == InitOpen /\ [][OpenCalls]_vars

\* ------------------------------------- the persistent shuffler, store failing

\* AwShuffler::add returns Err(e)
FailedAdd(item, r, e) ==
    /\ \E o \in {persistent_add_failing(tree, db, new_items, item, r, e)} :
          PersistentReturns(o)
    /\ UNCHANGED live

\* AwShuffler::remove with a delete that returns Err(e)
FailedRemove(item, e) ==
    /\ \E o \in {persistent_remove_failing(tree, db, item, e)} : PersistentReturns(o)
    /\ live' = live \ {item}

\* AwShuffler::next with a store call that returns Err(e)
FailedNext(rnds, late, e) ==
    /\ \E o \in {persistent_next_failing(tree, db, bias, rnds, late, e)} :
          PersistentReturns(o)
    /\ UNCHANGED live

\* The persistent shuffler whose store calls may return Err, used on after
\* an Err as before it.
FailingCalls ==
    \/ \E item \in 1..MaxShuffled, r \in 0..U64Max : PersistentAdd(item, r)
    \/ \E item \in 1..MaxShuffled : PersistentRemove(item)
    \/ \E rnds \in DrawsOf(size(tree) = 0, 1) : PersistentNext(rnds)
    \/ \E item \in 1..MaxShuffled, r \in 0..U64Max, e \in StoreErrors :
           FailedAdd(item, r, e)
    \/ \E item \in 1..MaxShuffled, e \in StoreErrors : FailedRemove(item, e)
    \/ \E rnds \in DrawsOf(size(tree) = 0, 1), late \in BOOLEAN, e \in StoreErrors :
           FailedNext(rnds, late, e)

SpecFailing == Init /\ [][FailingCalls]_vars

\* ------------------------------------------------ what the tree represents

\* The slots of the subtree at n in order: left subtree, n, right subtree.
RECURSIVE in_order(_, _)
in_order(a, n) ==
    IF n = None THEN << >>
    ELSE in_order(a, a[n].left) \o <<n>> \o in_order(a, a[n].right)

\* The slots of the whole tree in order, found from the root.
InOrder(t) == in_order(t.arena, t.root)

\* The elements of a sequence.
Range(s) == {s[k] : k \in 1..Len(s)}

\* The <<item, generation>> pairs the tree holds, found from the root.
Contents(t) == {<<t.arena[n].item, t.arena[n].generation>> : n \in Range(InOrder(t))}

\* The items the tree holds.
ItemsOf(t) == {p[1] : p \in Contents(t)}

\* The generations the tree holds.
GensOf(t) == {p[2] : p \in Contents(t)}

SetMin(S) == CHOOSE x \in S : \A y \in S : x <= y

SetMax(S) == CHOOSE x \in S : \A y \in S : x >= y

\* The largest generation of a non-empty tree.
MaxGen(t) == SetMax(GensOf(t))

\* Contents after a draw that stamped the items of `returned` with gen.
Stamped(c, returned, gen) ==
    {<<p[1], IF p[1] \in returned THEN gen ELSE p[2]>> : p \in c}

\* A draw from t succeeded: it returned the n items `items`, all members of
\* t, every one of them now has generation MaxGen(t) + 1, and nothing else
\* differs.
DrawOk(t, o, items, n) ==
    /\ ~o.panic
    /\ Len(items) = n
    /\ Range(items) \subseteq ItemsOf(t)
    /\ Contents(o.tree) = Stamped(Contents(t), Range(items), MaxGen(t) + 1)

\* ----------------------------------------------------------------- claims

\* C1: on a non-empty in-memory shuffler whose largest generation is below
\* u64::MAX, a successful next, next_n(n) or unique_n(n) returns exactly 1
\* (resp. n) items of the shuffler, every returned item ends with generation
\* (largest generation before the call) + 1, and the item set and the
\* generations of the items not returned are unchanged.  Checked for every
\* bias and every outcome of the random source.
C1_DrawStampsNextGeneration ==
    (ItemsOf(tree) # {} /\ MaxGen(tree) < U64Max) =>
        \A b \in Biases :
            /\ \A rnds \in RndSeqs(1, size(tree)) :
                  LET o == next(tree, b, rnds) IN
                  o.ret # NoneVal /\ DrawOk(tree, o, o.ret, 1)
            /\ \A n \in 0..MaxDraws : \A rnds \in RndSeqs(n, size(tree)) :
                  LET o == next_n(tree, b, rnds) IN
                  o.ret # NoneVal /\ DrawOk(tree, o, o.ret[1], n)
            /\ \A n \in 0..MaxDraws : \A rnds \in RndSeqs(n, size(tree)) :
                  n <= size(tree) =>
                      LET o == unique_n(tree, b, n, rnds) IN
                      o.ret # NoneVal /\ DrawOk(tree, o, o.ret[1], n)

\* C1's case: three items of generations 0 and 1, and a next_n(2) that
\* returns two different items, both stamped 2.
C1_Witness ==
    /\ Cardinality(ItemsOf(tree)) = MaxShuffled
    /\ GensOf(tree) = {0, 1}
    /\ \E rnds \in RndSeqs(2, size(tree)) :
          LET o == next_n(tree, bias, rnds) IN
          /\ o.ret # NoneVal
          /\ o.ret[1][1] # o.ret[1][2]
          /\ \A k \in 1..2 : <<o.ret[1][k], 2>> \in Contents(o.tree)

\* C2: unique_n(n) returns None exactly when the shuffler is empty or holds
\* fewer than n items; otherwise it returns n pairwise distinct items.
\* Checked for every bias and every outcome of the random source.
C2_UniqueNDistinct ==
    \A n \in 0..MaxDraws, b \in Biases :
        IF ItemsOf(tree) = {} \/ Cardinality(ItemsOf(tree)) < n
        THEN LET o == unique_n(tree, b, n, << >>) IN
             o.ret = NoneVal /\ ~o.panic
        ELSE \A rnds \in RndSeqs(n, size(tree)) :
                LET o == unique_n(tree, b, n, rnds) IN
                /\ ~o.panic
                /\ o.ret # NoneVal
                /\ Len(o.ret[1]) = n
                /\ Cardinality(Range(o.ret[1])) = n

\* C2's case: the shuffler holds exactly the two items asked for, with
\* different generations, and the two draws of unique_n(2) aim at the same
\* rank with the same unit float, yet return two different items.
C2_Witness ==
    /\ Cardinality(ItemsOf(tree)) = 2
    /\ GensOf(tree) = {0, 1}
    /\ \E rnd \in Rnd(size(tree)) :
          LET o == unique_n(tree, bias, 2, <<rnd, rnd>>) IN
          o.ret # NoneVal /\ o.ret[1][1] # o.ret[1][2]

\* The ranks (1-based positions in the in-order sequence seq) of the nodes
\* with generation <= g.
Eligible(a, seq, g) == {k \in 1..Len(seq) : a[seq[k]].generation <= g}

\* The node find_next is specified to return: the first eligible node at or
\* after rank index (0-based), else the first eligible node.
FirstEligible(seq, eligible, index) ==
    LET after == {k \in eligible : k >= index + 1} IN
    seq[IF after # {} THEN SetMin(after) ELSE SetMin(eligible)]

\* C3: find_next(index, g) returns the first node in order with rank >= index
\* and generation <= g, wrapping to the first node with generation <= g when
\* there is none; with g at or above the largest generation it returns the
\* node of rank index.
C3_FindNextFirstEligible ==
    LET seq == InOrder(tree) IN
    \A g \in 0..U64Max :
        LET eligible == Eligible(tree.arena, seq, g) IN
        \A index \in 0..(Len(seq) - 1) :
            /\ eligible # {} =>
                  find_next(tree, index, g) = Ok(FirstEligible(seq, eligible, index))
            /\ eligible = 1..Len(seq) =>
                  find_next(tree, index, g) = Ok(seq[index + 1])

\* C3's case: one search wraps around to a node before index, and another
\* skips the node at index for a later one.
C3_Witness ==
    LET seq == InOrder(tree) IN
    /\ \E index \in 0..(Len(seq) - 1), g \in 0..U64Max :
          /\ Eligible(tree.arena, seq, g) # {}
          /\ \A k \in Eligible(tree.arena, seq, g) : k < index + 1
          /\ find_next(tree, index, g) = Ok(seq[SetMin(Eligible(tree.arena, seq, g))])
    /\ \E index \in 0..(Len(seq) - 1), g \in 0..U64Max :
          /\ (index + 1) \notin Eligible(tree.arena, seq, g)
          /\ \E k \in Eligible(tree.arena, seq, g) : k > index + 1
          /\ find_next(tree, index, g).ok
          /\ find_next(tree, index, g).val # seq[index + 1]

\* The generations held in the subtree at n.
SubtreeGens(a, n) == {a[m].generation : m \in Range(in_order(a, n))}

\* C4: after any sequence of insert, delete, set_generation and reset, every
\* node's children is the number of its descendants and its min_gen / max_gen
\* are the smallest / largest generation of its subtree; generations() is
\* that pair for the whole tree, and (0, 0) for the empty tree.
C4_AggregatesExact ==
    /\ \A n \in Range(InOrder(tree)) :
          /\ tree.arena[n].children = Len(in_order(tree.arena, n)) - 1
          /\ tree.arena[n].min_gen = SetMin(SubtreeGens(tree.arena, n))
          /\ tree.arena[n].max_gen = SetMax(SubtreeGens(tree.arena, n))
    /\ generations(tree) = IF InOrder(tree) = << >> THEN <<0, 0>>
                           ELSE <<SetMin(GensOf(tree)), SetMax(GensOf(tree))>>

\* C4's case: a full tree whose root holds neither the smallest nor the
\* largest generation, and from which a delete leaves generations() = (0, 0)
\* with more than one node.
C4_Witness ==
    /\ Len(InOrder(tree)) = MaxItems
    /\ generations(tree) = <<0, U64Max>>
    /\ tree.arena[tree.root].generation = 1
    /\ \E item \in live :
          /\ generations(delete(tree, item).tree) = <<0, 1>>
          /\ tree.arena[find_node(tree, item)].left # None
          /\ tree.arena[find_node(tree, item)].right # None

\* (hash, item) of the node in slot n comes strictly before that of slot m.
Precedes(a, n, m) ==
    \/ a[n].hash < a[m].hash
    \/ a[n].hash = a[m].hash /\ a[n].item < a[m].item

\* C5: the tree is a binary search tree: its in-order traversal yields
\* strictly ascending (hash, item) keys.
C5_InOrderAscending ==
    \A k \in 1..(Len(InOrder(tree)) - 1) :
        Precedes(tree.arena, InOrder(tree)[k], InOrder(tree)[k + 1])

\* C5's case: a full tree, in which neighbours in order share a hash and the
\* item order disagrees with the key order, that loses a node with two
\* children.
C5_Witness ==
    /\ Len(InOrder(tree)) = MaxShapeItems
    /\ \E k \in 1..(MaxShapeItems - 1) :
          tree.arena[InOrder(tree)[k]].hash = tree.arena[InOrder(tree)[k + 1]].hash
    /\ \E k \in 1..(MaxShapeItems - 1) :
          tree.arena[InOrder(tree)[k]].item > tree.arena[InOrder(tree)[k + 1]].item
    /\ \E item \in live :
          /\ tree.arena[find_node(tree, item)].left # None
          /\ tree.arena[find_node(tree, item)].right # None
          /\ Len(InOrder(delete(tree, item).tree)) = MaxShapeItems - 1

\* The number of black nodes on every path from n down to a leaf position,
\* counting the leaf position as one; -1 when two paths differ.
RECURSIVE black_height(_, _)
black_height(a, n) ==
    IF n = None THEN 1
    ELSE LET l == black_height(a, a[n].left)
             r == black_height(a, a[n].right)
         IN  IF l = -1 \/ r = -1 \/ l # r THEN -1
             ELSE l + (IF a[n].red THEN 0 ELSE 1)

\* Slot c, or no node, is black.
IsBlack(a, c) == c = None \/ ~a[c].red

\* C6: the red-black invariants hold: the root is black, no red node has a
\* red child, and every path from a node to a leaf holds the same number of
\* black nodes.
C6_RedBlack ==
    /\ IsBlack(tree.arena, tree.root)
    /\ \A n \in Range(InOrder(tree)) :
          tree.arena[n].red =>
              IsBlack(tree.arena, tree.arena[n].left) /\ IsBlack(tree.arena, tree.arena[n].right)
    /\ black_height(tree.arena, tree.root) # -1

\* C6's case: the delete of a black leaf whose sibling is red, which
\* rotates the parent before it rebalances, from a tree that insertions have
\* rebalanced too.
C6_Witness ==
    \E item \in live :
        LET a == tree.arena
            n == find_node(tree, item)
        IN  /\ ~a[n].red
            /\ a[n].left = None /\ a[n].right = None
            /\ a[n].parent # None
            /\ a[other_child(a[a[n].parent], n)].red
            /\ Len(InOrder(delete(tree, item).tree)) = Len(InOrder(tree)) - 1

\* C7: size() (the arena's length) equals the size counter, equals
\* root.children + 1 (0 without a root), and equals the number of distinct
\* items inserted and not deleted.
C7_SizeAgrees ==
    /\ size(tree) = tree.size
    /\ size(tree) = (IF tree.root = None THEN 0 ELSE tree.arena[tree.root].children + 1)
    /\ size(tree) = Cardinality(live)

\* C7's case: a tree that has been full and now holds fewer items, from
\* which a further delete moves the arena's last node into the freed slot.
C7_Witness ==
    /\ Cardinality(live) = MaxItems - 1
    /\ \E k \in 1..size(tree) : tree.arena[k].item = MaxItems /\ k < size(tree)
    /\ tree.arena[size(tree)].item = 1
    /\ \E item \in live :
          /\ find_node(tree, item) < size(tree)
          /\ size(delete(tree, item).tree) = MaxItems - 2

\* The store holds exactly the records of the tree's contents.
StoreOf(t) ==
    [k \in Keys |-> IF \E p \in Contents(t) : to_vec(p[1]) = k
                    THEN Some(to_vec((CHOOSE p \in Contents(t) : to_vec(p[1]) = k)[2]))
                    ELSE NoneVal]

\* C8: for a persistent shuffler opened with keep_unrecognized = false and
\* driven only by add, remove, next, next_n and unique_n, all returning Ok,
\* the store holds exactly one record per item of the tree, and each record's
\* generation is that item's generation in the tree.
C8_StoreMirrorsTree == panicked \/ db = StoreOf(tree)

\* C9: add / insert returns true exactly when no equal item is present; when
\* one is present it returns false and changes nothing.
C9_InsertReportsNew ==
    \A item \in Item :
        /\ \A generation \in 0..U64Max :
              LET ins == insert(tree, item, generation) IN
              /\ ins.ret = (item \notin live)
              /\ item \in live => ins.tree = tree
        /\ \A policy \in NewItemHandling, r \in 0..U64Max :
              LET o == add(tree, policy, item, r) IN
              /\ o.ret = (item \notin live)
              /\ item \in live => o.tree = tree

\* C9's case: an item is present with a generation other than the one
\* offered, and an absent item shares its hash.
C9_Witness ==
    \E item \in live, other \in Item \ live :
        /\ hash(item) = hash(other)
        /\ <<item, 0>> \in Contents(tree)
        /\ insert(tree, item, 1).ret = FALSE
        /\ insert(tree, other, 1).ret = TRUE
        /\ add(tree, "RecentlySelected", item, 0).ret = FALSE
        /\ generations(tree)[2] = 1

\* C10: remove / delete of a present item returns that very item (with its
\* hash), also when the node has two children and is swapped with its
\* successor; the item set loses exactly that item and the other generations
\* are kept. For an absent item it returns None and nothing changes.
C10_DeleteReturnsItem ==
    \A item \in Item :
        LET del == delete(tree, item)
            o == remove(tree, item)
        IN  IF item \in live
            THEN /\ del.ret = Some(<<item, hash(item)>>)
                 /\ o.ret = Some(item)
                 /\ Contents(del.tree) = {p \in Contents(tree) : p[1] # item}
                 /\ Contents(o.tree) = {p \in Contents(tree) : p[1] # item}
            ELSE /\ del.ret = NoneVal /\ del.tree = tree
                 /\ o.ret = NoneVal /\ o.tree = tree

\* C10's case: the deleted item sits in a node with two children whose
\* successor holds another generation, and another item is absent.
C10_Witness ==
    /\ live # Item
    /\ \E item \in live :
          LET n == find_node(tree, item)
              s == delete_target(tree.arena, n)
          IN  /\ tree.arena[n].left # None /\ tree.arena[n].right # None
              /\ tree.arena[s].generation # tree.arena[n].generation
              /\ delete(tree, item).ret = Some(<<item, hash(item)>>)
              /\ Len(InOrder(delete(tree, item).tree)) = Len(InOrder(tree)) - 1

\* The smallest generation of a non-empty tree.
MinGen(t) == SetMin(GensOf(t))

\* C11: add of an item that is not in the shuffler inserts it with the
\* smallest current generation under NeverSelected, the largest under
\* RecentlySelected and some generation between the two under Random; on an
\* empty shuffler the generation is 0 under every policy; the items already
\* present and their generations are unchanged.  Checked for every policy
\* and every outcome of the random source.
C11_AddInitialGeneration ==
    \A item \in Item \ ItemsOf(tree), p \in NewItemHandling, r \in 0..U64Max :
        LET o == add(tree, p, item, r) IN
        /\ ~o.panic
        /\ o.ret = TRUE
        /\ \E g \in 0..U64Max :
              /\ Contents(o.tree) = Contents(tree) \cup {<<item, g>>}
              /\ IF ItemsOf(tree) = {} THEN g = 0
                 ELSE /\ p = "NeverSelected" => g = MinGen(tree)
                      /\ p = "RecentlySelected" => g = MaxGen(tree)
                      /\ p = "Random" => MinGen(tree) <= g /\ g <= MaxGen(tree)

\* C11's case: two items with different generations 1 and 2, an absent third
\* item, and the three policies give it 1, 2 and (for the random word 1) 2.
C11_Witness ==
    /\ Cardinality(ItemsOf(tree)) = 2
    /\ GensOf(tree) = {1, 2}
    /\ \E item \in (1..MaxShuffled) \ ItemsOf(tree) :
          /\ <<item, 1>> \in Contents(add(tree, "NeverSelected", item, 0).tree)
          /\ <<item, 2>> \in Contents(add(tree, "RecentlySelected", item, 0).tree)
          /\ <<item, 2>> \in Contents(add(tree, "Random", item, 1).tree)
          /\ <<item, 1>> \in Contents(add(tree, "Random", item, 2).tree)

\* Largest n of the calls that are refused for want of items.
MaxRefused == MaxShuffled + 1

\* A call returned None and left the tree as it was.
NoneUnchanged(t, o) == ~o.panic /\ o.ret = NoneVal /\ o.tree = t

\* If a call returned None, it left the tree as it was.
NoneKeeps(t, o) == (~o.panic /\ o.ret = NoneVal) => o.tree = t

\* C12: on an empty in-memory shuffler next(), next_n(n) and unique_n(n)
\* return None for every n, 0 included; unique_n(n) returns None when n
\* exceeds the number of items; every call that returns None leaves the items
\* and their generations unchanged, and generations() of the empty shuffler
\* stays (0, 0).  Checked for every bias and whatever the random source holds.
C12_NoneLeavesState ==
    \A b \in Biases :
        /\ \A n \in 0..MaxRefused : \A rnds \in RndSeqs(n, 1) :
              /\ ItemsOf(tree) = {} =>
                    /\ NoneUnchanged(tree, next(tree, b, rnds))
                    /\ NoneUnchanged(tree, next_n(tree, b, rnds))
                    /\ NoneUnchanged(tree, unique_n(tree, b, n, rnds))
                    /\ generations(tree) = <<0, 0>>
              /\ Cardinality(ItemsOf(tree)) < n =>
                    NoneUnchanged(tree, unique_n(tree, b, n, rnds))
        /\ ItemsOf(tree) # {} =>
              \A n \in 0..MaxDraws : \A draws \in RndSeqs(n, size(tree)) :
                  /\ NoneKeeps(tree, next_n(tree, b, draws))
                  /\ NoneKeeps(tree, unique_n(tree, b, n, draws))
                  /\ n = 1 => NoneKeeps(tree, next(tree, b, draws))

\* C12's case: one item, drawn twice so that its generation is 2, and
\* unique_n(2) refuses and leaves that generation in place.
C12_Witness ==
    /\ Cardinality(ItemsOf(tree)) = 1
    /\ GensOf(tree) = {U64Max}
    /\ \E rnds \in RndSeqs(2, 1) :
          LET o == unique_n(tree, bias, 2, rnds) IN
          o.ret = NoneVal /\ GensOf(o.tree) = {U64Max}

\* unique_n(n) and, only if that returned None, next_n(n), both fed the
\* random outcomes rnds: u is what unique_n returned.
UniqueThenNext(t, b, rnds, u) ==
    IF ~u.panic /\ u.ret = NoneVal THEN next_n(u.tree, b, rnds) ELSE u

\* The random outcomes of a call asking for n items: of the right ranks when
\* the shuffler has items, anything when it is empty and draws nothing.
DrawsFor(t, n) == RndSeqs(n, IF size(t) = 0 THEN 1 ELSE size(t))

\* C13: try_unique_n(n) returns the same value and leaves the same tree as
\* unique_n(n) followed, only if that returned None, by next_n(n), given the
\* same random outcomes; it returns None exactly when the shuffler is empty.
\* Checked for every bias and every outcome of the random source.
C13_TryUniqueN ==
    \A b \in Biases, n \in 0..MaxDraws : \A rnds \in DrawsFor(tree, n) :
        LET o == try_unique_n(tree, b, n, rnds) IN
        /\ o = UniqueThenNext(tree, b, rnds, unique_n(tree, b, n, rnds))
        /\ ~o.panic
        /\ o.ret = NoneVal <=> ItemsOf(tree) = {}

\* C13's case: a single item and try_unique_n(2), which falls back to next_n
\* and returns that item twice, stamped with the next generation.
C13_Witness ==
    /\ Cardinality(ItemsOf(tree)) = 1
    /\ GensOf(tree) = {1}
    /\ \E rnds \in RndSeqs(2, 1) :
          LET o == try_unique_n(tree, bias, 2, rnds) IN
          /\ unique_n(tree, bias, 2, rnds).ret = NoneVal
          /\ o.ret # NoneVal
          /\ Len(o.ret[1]) = 2
          /\ o.ret[1][1] = o.ret[1][2]
          /\ GensOf(o.tree) = {2}

\* The largest generation of the shuffler: MaxGen, 0 when it is empty.
CurrentMax(t) == IF ItemsOf(t) = {} THEN 0 ELSE MaxGen(t)

\* Every node of t has generation, min_gen and max_gen 0, and t differs from
\* t0 in nothing else.
AllZeroed(t0, t) ==
    /\ \A i \in 1..Len(t.arena) :
          t.arena[i].generation = 0 /\ t.arena[i].min_gen = 0 /\ t.arena[i].max_gen = 0
    /\ t = [t0 EXCEPT !.arena = t.arena]
    /\ Len(t.arena) = Len(t0.arena)
    /\ \A i \in 1..Len(t.arena) :
          t.arena[i] = [t0.arena[i] EXCEPT !.generation = 0, !.min_gen = 0, !.max_gen = 0]

\* C14: next_generation returns (largest generation + 1, false) and changes
\* no node while the largest generation is below u64::MAX; when it equals
\* u64::MAX it sets generation, min_gen and max_gen of every node to 0 and
\* returns (1, true); the generation handed out never exceeds u64::MAX; and
\* a draw that follows a reset stamps its item with 1 and leaves the others
\* at 0.
C14_NextGeneration ==
    LET ng == next_generation(tree) IN
    /\ 1 <= ng.gen /\ ng.gen <= U64Max
    /\ CurrentMax(tree) < U64Max =>
          ng.gen = CurrentMax(tree) + 1 /\ ~ng.reset /\ ng.tree = tree
    /\ CurrentMax(tree) = U64Max =>
          /\ ng.gen = 1 /\ ng.reset /\ AllZeroed(tree, ng.tree)
          /\ \A b \in Biases : \A rnds \in RndSeqs(1, size(tree)) :
                LET o == next(tree, b, rnds) IN
                /\ ~o.panic /\ o.ret # NoneVal
                /\ o.ret[1] \in ItemsOf(tree)
                /\ Contents(o.tree) =
                      {<<i, IF i = o.ret[1] THEN 1 ELSE 0>> : i \in ItemsOf(tree)}

\* C14's case: three items of which one has reached generation U64Max and
\* another has not, so that next_generation resets them all.
C14_Witness ==
    /\ Cardinality(ItemsOf(tree)) = MaxShuffled
    /\ U64Max \in GensOf(tree)
    /\ GensOf(tree) # {U64Max}
    /\ next_generation(tree).reset
    /\ GensOf(next_generation(tree).tree) = {0}

\* The generation item has in t.
GenerationOf(t, item) == (CHOOSE p \in Contents(t) : p[1] = item)[2]

\* The generation a successful next() stamped on the item it returned.
StampOf(o) == GenerationOf(o.tree, o.ret[1])

\* first is what a next() returned; every next() that follows it directly
\* and causes no overflow reset stamps a strictly greater generation.
LaterStampGreater(first, b) ==
    (~first.panic /\ first.ret # NoneVal /\ MaxGen(first.tree) < U64Max) =>
        \A rnds \in RndSeqs(1, size(first.tree)) :
            LET second == next(first.tree, b, rnds) IN
            /\ ~second.panic /\ second.ret # NoneVal
            /\ StampOf(second) > StampOf(first)

\* C15: of two successive next() calls on a non-empty shuffler, with no
\* overflow reset caused by the later one, the later call stamps its item
\* with a strictly greater generation than the earlier call stamped.  Checked
\* for every bias and every outcome of the random source in both calls, the
\* earlier call being free to reset.
C15_SuccessiveNextIncreasing ==
    ItemsOf(tree) # {} =>
        \A b \in Biases : \A rnds \in RndSeqs(1, size(tree)) :
            LaterStampGreater(next(tree, b, rnds), b)

\* C15's case: three items, the earlier next() stamps 1 on one of them and
\* the later next() picks the same item again and stamps 2.
C15_Witness ==
    /\ Cardinality(ItemsOf(tree)) = MaxShuffled
    /\ GensOf(tree) = {0}
    /\ \E r1 \in RndSeqs(1, size(tree)), r2 \in RndSeqs(1, size(tree)) :
          LET first == next(tree, bias, r1)
              second == next(first.tree, bias, r2)
          IN  /\ first.ret # NoneVal /\ second.ret # NoneVal
              /\ first.ret[1] = second.ret[1]
              /\ StampOf(first) = 1
              /\ StampOf(second) = 2

\* The items of a non-empty tree that are tied for its smallest generation.
TiedOldest(t) == {i \in ItemsOf(t) : GenerationOf(t, i) = MinGen(t)}

\* The tree as the k-th draw of next_n(t, "inf", rnds) finds it: after
\* next_generation and the stamps of the k - 1 draws before it.
BeforeDraw(t, rnds, k) ==
    draw_loop(next_generation(t).tree, "inf", next_generation(t).gen, FALSE,
              SubSeq(rnds, 1, k - 1), << >>).tree

\* With an infinite bias every draw of next and of next_n picks an item that
\* has the smallest generation of the tree at the moment of the draw.
EveryDrawOldest(t) ==
    /\ \A rnds \in RndSeqs(1, size(t)) :
          LET o == next(t, "inf", rnds) IN
          ~o.panic /\ o.ret # NoneVal /\ o.ret[1] \in TiedOldest(t)
    /\ \A n \in 0..MaxDraws : \A rnds \in RndSeqs(n, size(t)) :
          LET o == next_n(t, "inf", rnds) IN
          /\ ~o.panic /\ o.ret # NoneVal /\ Len(o.ret[1]) = n
          /\ \A k \in 1..n : o.ret[1][k] \in TiedOldest(BeforeDraw(t, rnds, k))

\* next_n(n) with an infinite bias and n no larger than the number of items
\* tied for the smallest generation returns n distinct items of that set.
BatchOfOldest(t) ==
    \A n \in 0..MaxDraws : \A rnds \in RndSeqs(n, size(t)) :
        n <= Cardinality(TiedOldest(t)) =>
            LET o == next_n(t, "inf", rnds) IN
            /\ o.ret # NoneVal
            /\ Cardinality(Range(o.ret[1])) = n
            /\ Range(o.ret[1]) \subseteq TiedOldest(t)

\* second is a next_n(k) that directly follows the next_n(k) that returned
\* first: the two return disjoint sets, and min_gen = max_gen - 1 afterwards.
DisjointHalves(first, second) ==
    /\ first.ret # NoneVal /\ second.ret # NoneVal
    /\ Range(first.ret[1]) \cap Range(second.ret[1]) = {}
    /\ generations(second.tree)[1] = generations(second.tree)[2] - 1

\* t holds 2k items, k >= 1, all of one generation.
TwoHalves(t, k) ==
    k >= 1 /\ Cardinality(ItemsOf(t)) = 2 * k /\ Cardinality(GensOf(t)) = 1

\* C16 as stated: with an infinite bias every draw of next and next_n picks
\* an item of the smallest generation at the moment of the draw; next_n(n)
\* with n no larger than the number of items tied for the smallest generation
\* returns n distinct items of that set; and with 2k items at one generation
\* two successive next_n(k) calls return disjoint sets and leave
\* min_gen = max_gen - 1.
C16_AsStated ==
    ItemsOf(tree) # {} =>
        /\ EveryDrawOldest(tree)
        /\ BatchOfOldest(tree)
        /\ \A k \in 1..MaxDraws :
              TwoHalves(tree, k) =>
                  \A r1 \in RndSeqs(k, size(tree)), r2 \in RndSeqs(k, size(tree)) :
                      LET first == next_n(tree, "inf", r1) IN
                      DisjointHalves(first, next_n(first.tree, "inf", r2))

\* C16, amended: the first part as stated; the batch of n items is made of
\* distinct items of the set tied for the smallest generation provided the
\* call causes no overflow reset; and the two successive next_n(k) calls
\* return disjoint sets provided the second of them causes no overflow reset
\* (min_gen = max_gen - 1 holds either way).
C16_OldestFirst ==
    ItemsOf(tree) # {} =>
        /\ EveryDrawOldest(tree)
        /\ MaxGen(tree) < U64Max => BatchOfOldest(tree)
        /\ \A k \in 1..MaxDraws :
              TwoHalves(tree, k) =>
                  \A r1 \in RndSeqs(k, size(tree)), r2 \in RndSeqs(k, size(tree)) :
                      LET first == next_n(tree, "inf", r1)
                          second == next_n(first.tree, "inf", r2)
                      IN  /\ MaxGen(first.tree) < U64Max => DisjointHalves(first, second)
                          /\ generations(second.tree)[1] = generations(second.tree)[2] - 1

\* C16's case: two items at generation 0 and two next_n(1) calls that both
\* aim at rank 0, yet return the two different items and leave generations
\* (1, 2).
C16_Witness ==
    /\ TwoHalves(tree, 1)
    /\ GensOf(tree) = {0}
    /\ \E r \in RndSeqs(1, size(tree)) :
          LET first == next_n(tree, "inf", r)
              second == next_n(first.tree, "inf", r)
          IN  /\ r[1][2] = 0
              /\ DisjointHalves(first, second)
              /\ generations(second.tree) = <<1, 2>>

\* C17: after any sequence of insert, delete, set_generation and reset,
\* values() returns exactly the items inserted and not deleted, each once,
\* and dump() returns exactly those items, each once, each paired with the
\* generation it has in the tree.
C17_ValuesAndDump ==
    /\ Len(values(tree)) = Cardinality(live)
    /\ Range(values(tree)) = live
    /\ Len(dump(tree)) = Cardinality(live)
    /\ {p[1] : p \in Range(dump(tree))} = live
    /\ Range(dump(tree)) = Contents(tree)

\* C17's case: four items of three different generations, and a delete that
\* moves the arena's last node into the freed slot; values() and dump() of
\* the result list the three remaining items.
C17_Witness ==
    /\ Cardinality(live) = 4
    /\ GensOf(tree) = {0, 1, 2}
    /\ \E item \in live :
          LET d == delete(tree, item).tree IN
          /\ find_node(tree, item) < size(tree)
          /\ values(d)[find_node(tree, item)] = values(tree)[size(tree)]
          /\ Range(values(d)) = live \ {item}
          /\ Range(dump(d)) = {p \in Contents(tree) : p[1] # item}

\* Largest index handed to find_next: one past the largest size.
MaxIndex == MaxItems + 1

\* C18: find_next(index, g) panics when the tree is empty, when index is not
\* below the size, and when no node has a generation <= g.
C18_FindNextPanics ==
    \A index \in 0..MaxIndex, g \in 0..U64Max :
        (\/ live = {}
         \/ index >= Cardinality(live)
         \/ \A gen \in GensOf(tree) : gen > g)
            => ~find_next(tree, index, g).ok

\* C18's case: a tree of three items whose generations are all at least 1:
\* find_next panics for generation 0 at a valid index, and for index = size
\* at a generation every node qualifies for, and returns a node otherwise.
C18_Witness ==
    /\ Cardinality(live) = 3
    /\ GensOf(tree) = {1, 2}
    /\ ~find_next(tree, 1, 0).ok
    /\ ~find_next(tree, 3, U64Max).ok
    /\ find_next(tree, 2, 1).ok

\* The store record of every item of `items` is the generation the item has
\* in the tree that the call o left.
RecordsMatchStamps(o, items) ==
    \A item \in items :
        /\ item \in ItemsOf(o.tree)
        /\ o.db[to_vec(item)] # NoneVal
        /\ get(o.db, item) = Some(GenerationOf(o.tree, item))

\* A persistent draw returned Ok(Some(items)), and the records of the
\* returned items match their stamps.
WrittenAsStamped(o, items) ==
    ~o.panic /\ (o.ret # NoneVal => RecordsMatchStamps(o, items))

\* C19: when the persistent next, next_n(n) or unique_n(n) returns
\* Ok(Some(items)), the generation written to the store for every returned
\* item equals the generation stamped on it in the tree, also when the call
\* resets the generations on overflow.  Checked for every bias and every
\* outcome of the random source.
C19_DrawRecordsMatch ==
    panicked \/
    \A b \in Biases :
        /\ \A rnds \in DrawsFor(tree, 1) :
              \A o \in {persistent_next(tree, db, b, rnds)} :
                  WrittenAsStamped(o, IF o.ret # NoneVal THEN {o.ret[1]} ELSE {})
        /\ \A n \in 0..MaxDraws : \A rnds \in DrawsFor(tree, n) :
              /\ \A o \in {persistent_next_n(tree, db, b, rnds)} :
                    WrittenAsStamped(o, drawn(o))
              /\ \A o \in {persistent_unique_n(tree, db, b, n, rnds)} :
                    WrittenAsStamped(o, drawn(o))

\* C19's case: three items of which one has reached generation U64Max, so
\* that next_n(2) resets; it returns two different items whose records are
\* 1, as in the tree, while the third item's record is the 0 of the reset.
C19_Witness ==
    /\ Cardinality(ItemsOf(tree)) = MaxShuffled
    /\ MaxGen(tree) = U64Max
    /\ \E rnds \in RndSeqs(2, size(tree)) :
          LET o == persistent_next_n(tree, db, bias, rnds) IN
          /\ o.ret # NoneVal
          /\ Cardinality(drawn(o)) = 2
          /\ \A item \in drawn(o) :
                get(o.db, item) = Some(1) /\ GenerationOf(o.tree, item) = 1
          /\ \A item \in ItemsOf(tree) \ drawn(o) :
                get(o.db, item) = Some(0) /\ GenerationOf(o.tree, item) = 0

\* persistent remove(item) on tree t and store d deleted the record of item
\* if and only if t held the item, and touched no other record.
RemoveDeletesIffHeld(t, d, item, o) ==
    /\ ~o.panic
    /\ item \notin ItemsOf(o.tree)
    /\ \A k \in Keys \ {to_vec(item)} : o.db[k] = d[k]
    /\ IF item \in ItemsOf(t)
       THEN o.ret = Some(item) /\ d[to_vec(item)] # NoneVal /\ o.db[to_vec(item)] = NoneVal
       ELSE o.ret = NoneVal /\ o.db = d /\ o.tree = t

\* After soft_remove(x), which returned s, remove(x) returns None and the
\* record of x is what it was before the two calls.
RemoveAfterSoftRemove(d, x, s, o) ==
    /\ s.db = d
    /\ x \notin ItemsOf(s.tree)
    /\ o.ret = NoneVal
    /\ o.db[to_vec(x)] = d[to_vec(x)]
    /\ o.db = d

\* C20: persistent remove(item) deletes the item's store record if and only
\* if the item was in the in-memory tree; after soft_remove(x), remove(x)
\* returns None and x's record is still in the store.
C20_RemoveDeletesRecord ==
    panicked \/
    \A item \in 1..MaxShuffled :
        /\ \A o \in {persistent_remove(tree, db, item)} :
              RemoveDeletesIffHeld(tree, db, item, o)
        /\ \A s \in {soft_remove(tree, db, item)} :
              \A o \in {persistent_remove(s.tree, s.db, item)} :
                  /\ RemoveAfterSoftRemove(db, item, s, o)
                  /\ item \in ItemsOf(tree) => o.db[to_vec(item)] # NoneVal

\* C20's case: an item that was soft-removed, so that it has a record and is
\* not in the tree, next to an item that is in the tree; remove of the first
\* returns None and keeps its record, remove of the second deletes its own.
C20_Witness ==
    \E x \in 1..MaxShuffled, y \in ItemsOf(tree) :
        /\ x \notin ItemsOf(tree)
        /\ db[to_vec(x)] # NoneVal
        /\ persistent_remove(tree, db, x).ret = NoneVal
        /\ persistent_remove(tree, db, x).db[to_vec(x)] = db[to_vec(x)]
        /\ persistent_remove(tree, db, y).ret = Some(y)
        /\ persistent_remove(tree, db, y).db[to_vec(y)] = NoneVal
        /\ persistent_remove(tree, db, y).db[to_vec(x)] = db[to_vec(x)]

\* C21: soft_remove(item) removes the item from the in-memory tree, returning
\* it when it was present, and leaves every record of the store, the item's
\* own record and generation included, unchanged.
C21_SoftRemoveKeepsStore ==
    panicked \/
    \A item \in 1..MaxShuffled :
        \A o \in {soft_remove(tree, db, item)} :
            /\ ~o.panic
            /\ o.db = db
            /\ Contents(o.tree) = {p \in Contents(tree) : p[1] # item}
            /\ o.ret = (IF item \in ItemsOf(tree) THEN Some(item) ELSE NoneVal)
            /\ item \in ItemsOf(tree) => o.db[to_vec(item)] # NoneVal

\* C21's case: two items in the tree, one of them drawn so that its record
\* reads 1; soft_remove of that item returns it, takes it out of the tree
\* and leaves its record at 1.
C21_Witness ==
    \E x \in ItemsOf(tree) :
        /\ Cardinality(ItemsOf(tree)) = 2
        /\ GenerationOf(tree, x) = 1
        /\ get(db, x) = Some(1)
        /\ soft_remove(tree, db, x).ret = Some(x)
        /\ x \notin ItemsOf(soft_remove(tree, db, x).tree)
        /\ get(soft_remove(tree, db, x).db, x) = Some(1)

\* load(item) found the item in the tree: false, nothing changed.
LoadOfHeld(t, d, o) == o.ret = FALSE /\ o.tree = t /\ o.db = d

\* load(item) found a record of generation gen for an item the tree did not
\* hold: the item is inserted with gen, true is returned, the store is
\* unchanged.
LoadOfStored(t, d, item, gen, o) ==
    /\ o.ret = TRUE
    /\ Contents(o.tree) = Contents(t) \cup {<<item, gen>>}
    /\ o.db = d

\* C22: load(item) returns false and changes neither tree nor store when the
\* item is in the tree; otherwise, when the store has a record of the item,
\* it inserts the item with exactly the stored generation, returns true and
\* leaves the store unchanged; otherwise it does exactly what add(item)
\* does.  Checked for every policy for new items and every random word.
C22_Load ==
    panicked \/
    \A item \in 1..MaxShuffled, p \in NewItemHandling, r \in 0..U64Max :
        \A o \in {load(tree, db, p, item, r)} :
            /\ ~o.panic
            /\ IF item \in ItemsOf(tree) THEN LoadOfHeld(tree, db, o)
               ELSE IF db[to_vec(item)] # NoneVal
                    THEN LoadOfStored(tree, db, item, db[to_vec(item)][1][1], o)
                    ELSE /\ o = persistent_add(tree, db, p, item, r)
                         /\ o.ret = TRUE
                         /\ o.db[to_vec(item)] # NoneVal

\* C22's case: an item whose record reads 1 is not in the tree, the tree
\* holds an item of generation 0, and load brings the item back with
\* generation 1, where add would have given it 0.
C22_Witness ==
    \E x \in (1..MaxShuffled) \ ItemsOf(tree) :
        /\ ItemsOf(tree) # {}
        /\ GensOf(tree) = {0}
        /\ get(db, x) = Some(1)
        /\ load(tree, db, new_items, x, 0).ret = TRUE
        /\ <<x, 1>> \in Contents(load(tree, db, new_items, x, 0).tree)
        /\ <<x, 0>> \in Contents(persistent_add(tree, db, new_items, x, 0).tree)

\* A call for no items returned the empty list.
EmptyList(o) == ~o.panic /\ o.ret = Some(<< >>)

\* C30 as stated: next_n(0) and unique_n(0) on a non-empty shuffler return
\* an empty list and leave every item's generation, and so generations(),
\* unchanged, in every reachable state.
C30_AsStated ==
    ItemsOf(tree) # {} =>
        \A b \in Biases :
            \A o \in {next_n(tree, b, << >>), unique_n(tree, b, 0, << >>)} :
                /\ EmptyList(o)
                /\ Contents(o.tree) = Contents(tree)
                /\ generations(o.tree) = generations(tree)

\* C30, amended: next_n(0) and unique_n(0) on a non-empty shuffler return an
\* empty list; they leave the tree unchanged while the largest generation is
\* below u64::MAX, and when it equals u64::MAX they reset every generation
\* to 0, so that generations() becomes (0, 0).
C30_ZeroDraws ==
    ItemsOf(tree) # {} =>
        \A b \in Biases :
            \A o \in {next_n(tree, b, << >>), unique_n(tree, b, 0, << >>)} :
                /\ EmptyList(o)
                /\ ItemsOf(o.tree) = ItemsOf(tree)
                /\ IF MaxGen(tree) < U64Max
                   THEN o.tree = tree
                   ELSE AllZeroed(tree, o.tree) /\ generations(o.tree) = <<0, 0>>

\* C30's case: two items at generations 1 and U64Max, where next_n(0) and
\* unique_n(0) return the empty list and put both items at 0.
C30_Witness ==
    /\ Cardinality(ItemsOf(tree)) = 2
    /\ GensOf(tree) = {1, U64Max}
    /\ EmptyList(next_n(tree, bias, << >>))
    /\ EmptyList(unique_n(tree, bias, 0, << >>))
    /\ GensOf(next_n(tree, bias, << >>).tree) = {0}
    /\ GensOf(unique_n(tree, bias, 0, << >>).tree) = {0}

\* The store agrees with the tree the call o left on every item of the tree.
StoreAgreesOnLive(o) ==
    \A item \in ItemsOf(o.tree) :
        /\ o.db[to_vec(item)] # NoneVal
        /\ get(o.db, item) = Some(GenerationOf(o.tree, item))

\* After a persistent draw that reset, the items it returned read 1 in the
\* store, every other item of the tree reads 0, and the tree agrees.
ResetBroadcast(o, returned) ==
    /\ ~o.panic
    /\ StoreAgreesOnLive(o)
    /\ \A item \in ItemsOf(o.tree) :
          get(o.db, item) = Some(IF item \in returned THEN 1 ELSE 0)

\* C27: when a persistent draw triggers the overflow reset (the largest
\* generation is u64::MAX), every item of the tree is rewritten in the store
\* with generation 0 before the draw's own generation is written, so that
\* after the call the store agrees with the tree on every item of the tree.
\* Checked for next, next_n and unique_n, every bias and every outcome of the
\* random source.
C27_ResetRewritesStore ==
    (~panicked /\ ItemsOf(tree) # {} /\ MaxGen(tree) = U64Max) =>
        \A b \in Biases :
            /\ \A rnds \in DrawsFor(tree, 1) :
                  \A o \in {persistent_next(tree, db, b, rnds)} :
                      o.ret # NoneVal /\ ResetBroadcast(o, {o.ret[1]})
            /\ \A n \in 0..MaxDraws : \A rnds \in DrawsFor(tree, n) :
                  /\ \A o \in {persistent_next_n(tree, db, b, rnds)} :
                        ResetBroadcast(o, drawn(o))
                  /\ \A o \in {persistent_unique_n(tree, db, b, n, rnds)} :
                        ResetBroadcast(o, drawn(o))

\* C27's case: three items with generations 0, 1 and U64Max in tree and
\* store; next() resets, and afterwards the store reads 1 for the returned
\* item and 0 for the two others, as the tree does.
C27_Witness ==
    /\ Cardinality(ItemsOf(tree)) = MaxShuffled
    /\ GensOf(tree) = {0, 1, U64Max}
    /\ db = StoreOf(tree)
    /\ \E rnds \in RndSeqs(1, size(tree)) :
          LET o == persistent_next(tree, db, bias, rnds) IN
          /\ o.ret # NoneVal
          /\ ResetBroadcast(o, {o.ret[1]})
          /\ o.db = StoreOf(o.tree)

\* ---------------------------------------------------------------------------
\* Opening a store: load_all
\* ---------------------------------------------------------------------------

\* Every record of the store d deserializes, key and value.
AllDecode(d) == \A k \in Keys : d[k] # NoneVal => decodes(k) /\ decodes(d[k][1])

\* The keys the store d holds a record under.
Stored(d) == {k \in Keys : d[k] # NoneVal}

\* The items the store d holds a record of that deserializes.
Decodable(d) == {i \in Item : d[to_vec(i)] # NoneVal /\ decodes(d[to_vec(i)][1])}

\* o is what Shuffler::new left of the store d, opened with the list V of
\* valid items and keep_unrecognized = false: the tree holds exactly V, the
\* store exactly the records of V; an item that had a record keeps it, and has
\* its generation in the tree; an item that had none has one generation in
\* both.
OpenedWithList(d, o, V) ==
    /\ o.err = NoError
    /\ ItemsOf(o.tree) = V
    /\ Stored(o.db) = {to_vec(i) : i \in V}
    /\ \A i \in V :
          /\ d[to_vec(i)] # NoneVal => o.db[to_vec(i)] = d[to_vec(i)]
          /\ get(o.db, i) = Some(GenerationOf(o.tree, i))

\* o is what Shuffler::new left of the store d, opened with no list: the tree
\* holds every record that deserializes, with the generation the record has.
OpenedWithoutList(d, o) ==
    /\ o.err = NoError
    /\ ItemsOf(o.tree) = Decodable(d)
    /\ \A i \in Decodable(d) : get(d, i) = Some(GenerationOf(o.tree, i))

\* C23: a successful open with a list of valid items V and keep_unrecognized
\* = false, over a store whose records all decode, leaves the tree holding
\* exactly V and the store exactly the records of V; the items already stored
\* keep their stored generation in both, the new ones have the same minted
\* generation in both.  With no list every decodable record is loaded with
\* its stored generation.
C23_OpenWithList ==
    \A p \in OpenHandling, remove_error \in BOOLEAN, order \in Orders :
        /\ AllDecode(db) =>
              \A V \in SUBSET (1..MaxShuffled) :
                  \A o \in {load_all(db, p, remove_error, FALSE, Some(V), order, NoWords)} :
                      OpenedWithList(db, o, V)
        /\ (remove_error \/ AllDecode(db)) =>
              \A keep_unrecognized \in BOOLEAN :
                  \A o \in {load_all(db, p, remove_error, keep_unrecognized, NoneVal,
                                     order, NoWords)} :
                      OpenedWithoutList(db, o)

\* The store holds, all decodable, a record with a generation above 0 of an
\* item the list names, a record of an item it does not name, and no record
\* of another item it names; the open has kept the first, deleted the second
\* and written the third.
C23_Witness ==
    /\ AllDecode(db)
    /\ \E V \in SUBSET (1..MaxShuffled) :
          \E i \in V, j \in V, k \in (1..MaxShuffled) \ V :
              /\ get(db, i) = Some(1)
              /\ db[to_vec(j)] = NoneVal
              /\ db[to_vec(k)] # NoneVal
              /\ \E o \in {load_all(db, "RecentlySelected", FALSE, FALSE, Some(V),
                                    [n \in 1..MaxShuffled |-> n], NoWords)} :
                    /\ o.err = NoError
                    /\ GenerationOf(o.tree, i) = 1
                    /\ o.db[to_vec(k)] = NoneVal
                    /\ o.db[to_vec(j)] # NoneVal

\* The items the store d holds a record under the key of.
Recorded(d) == {i \in Item : d[to_vec(i)] # NoneVal}

\* o is what Shuffler::new left of the store d, opened with the list V: the
\* record of every item outside V is as it was, and the item is not in the
\* tree.
UnrecognizedKept(d, o, V) ==
    \A i \in Recorded(d) \ V :
        /\ o.db[to_vec(i)] = d[to_vec(i)]
        /\ i \notin ItemsOf(o.tree)

C25_UndecodableRemoved ==
    \A p \in OpenHandling, keep_unrecognized \in BOOLEAN, items \in ValidLists,
       order \in Orders :
        /\ \A o \in {load_all(db, p, TRUE, keep_unrecognized, items, order, NoWords)} :
              o.err = NoError => AllDecode(o.db)
        /\ ~AllDecode(db) =>
              \A o \in {load_all(db, p, FALSE, keep_unrecognized, items, order, NoWords)} :
                  o.err = "Deserialization" /\ o.db = db

\* C26: on a persistent shuffler opened with remove_on_deserialization_error
\* = true no operation returns the Deserialization error: not the open, and
\* on the shuffler it makes not load, add or remove of any item.
C26_NeverDeserialization ==
    \A p \in OpenHandling, keep_unrecognized \in BOOLEAN, items \in ValidLists,
       order \in Orders :
        \A o \in {load_all(db, p, TRUE, keep_unrecognized, items, order, NoWords)} :
            /\ o.err # "Deserialization"
            /\ o.err = NoError =>
                  \A item \in 1..MaxShuffled :
                      /\ load(o.tree, o.db, p, item, 0).err # "Deserialization"
                      /\ persistent_add(o.tree, o.db, p, item, 0).err # "Deserialization"
                      /\ persistent_remove(o.tree, o.db, item).err # "Deserialization"

\* ---------------------------------------------------------------------------
\* Store calls that return Err
\* ---------------------------------------------------------------------------

\* o is what a persistent add that returned Err(e) left: tree and store are
\* what they were.
AddFailsBefore(o, e) == o.err = e /\ o.tree = tree /\ o.db = db

\* o is what a persistent remove of item left when its delete returns
\* Err(e): if the tree held the item the call returned Err(e) with the item
\* gone from the tree and its record in place; if not, no store call was made.
RemoveFailsAfter(o, item, e) ==
    IF item \in ItemsOf(tree)
    THEN o.err = e /\ o.tree = remove(tree, item).tree /\ o.tree # tree /\ o.db = db
    ELSE o.err = NoError /\ o.tree = tree /\ o.db = db

\* o is what a persistent draw left when a store call of it returns Err(e),
\* ng being what next_generation left, mem what the draw leaves in memory
\* and any whether it drew an item:
\* if the call returned Err(e), the tree is the reset tree when handle_reset
\* failed, and the tree with the draw when the put_batch of the draw failed;
\* it is the tree before the call only when nothing was reset and nothing
\* drawn.
DrawFailsAfter(o, ng, mem, any, late, e) ==
    /\ o.err \in {e, NoError}
    /\ o.err = e =>
          /\ o.tree = IF ng.reset /\ ~late THEN ng.tree ELSE mem.tree
          /\ (ng.reset \/ any) => o.tree # tree
    /\ o.err = NoError => mem.panic \/ mem.ret = NoneVal

\* Every draw of the persistent shuffler, with a store call that returns
\* Err(e), leaves what DrawFailsAfter says.
DrawsFailAfter(e) ==
    \A ng \in {next_generation(tree)}, late \in BOOLEAN :
        /\ \A rnds \in DrawsFor(tree, 1) :
              \A o \in {persistent_next_failing(tree, db, bias, rnds, late, e)},
                 mem \in {next(ng.tree, bias, rnds)} :
                  DrawFailsAfter(o, ng, mem, mem.ret # NoneVal, late, e)
        /\ \A n \in 0..MaxDraws : \A rnds \in DrawsFor(tree, n) :
              /\ \A o \in {persistent_next_n_failing(tree, db, bias, rnds, late, e)},
                    mem \in {next_n(ng.tree, bias, rnds)} :
                     DrawFailsAfter(o, ng, mem, drawn(mem) # {}, late, e)
              /\ \A o \in {persistent_unique_n_failing(tree, db, bias, n, rnds, late, e)},
                    mem \in {unique_n(ng.tree, bias, n, rnds)} :
                     DrawFailsAfter(o, ng, mem, drawn(mem) # {}, late, e)

\* C28 as stated: whenever a persistent add, remove, next, next_n or unique_n
\* returns a serialization error, the tree is what it was before the call.
C28_AsStated ==
    \A late \in BOOLEAN :
        /\ \A item \in 1..MaxShuffled :
              /\ \A r \in 0..U64Max :
                    \A o \in {persistent_add_failing(tree, db, new_items, item, r,
                                                     "Serialization")} :
                        o.err = "Serialization" => o.tree = tree
              /\ \A o \in {persistent_remove_failing(tree, db, item, "Serialization")} :
                    o.err = "Serialization" => o.tree = tree
        /\ \A rnds \in DrawsFor(tree, 1) :
              \A o \in {persistent_next_failing(tree, db, bias, rnds, late,
                                                "Serialization")} :
                  o.err = "Serialization" => o.tree = tree
        /\ \A n \in 0..MaxDraws : \A rnds \in DrawsFor(tree, n) :
              /\ \A o \in {persistent_next_n_failing(tree, db, bias, rnds, late,
                                                      "Serialization")} :
                    o.err = "Serialization" => o.tree = tree
              /\ \A o \in {persistent_unique_n_failing(tree, db, bias, n, rnds, late,
                                                        "Serialization")} :
                    o.err = "Serialization" => o.tree = tree

\* C28, amended: whenever a persistent add returns a serialization error the
\* tree is what it was before the call, since add encodes before it inserts.
\* remove and the draws encode after they have changed the tree: when remove
\* returns a serialization error the item is gone from the tree, and when a
\* draw returns one the tree has the reset, or the reset and the draw.
C28_SerializationError ==
    ~panicked =>
        /\ \A item \in 1..MaxShuffled :
              /\ \A r \in 0..U64Max :
                    \A o \in {persistent_add_failing(tree, db, new_items, item, r,
                                                     "Serialization")} :
                        AddFailsBefore(o, "Serialization")
              /\ \A o \in {persistent_remove_failing(tree, db, item, "Serialization")} :
                    RemoveFailsAfter(o, item, "Serialization")
        /\ DrawsFailAfter("Serialization")

\* The tree holds an item and lacks another: add of the second returns the
\* serialization error with the tree as it was, though it would have been
\* inserted; remove of the first returns it with the item gone; next returns
\* it with a generation of the tree changed.
C28_Witness ==
    /\ ~panicked
    /\ \E held \in ItemsOf(tree), new \in (1..MaxShuffled) \ ItemsOf(tree) :
          /\ persistent_add_failing(tree, db, new_items, new, 0, "Serialization").tree = tree
          /\ persistent_add(tree, db, new_items, new, 0).tree # tree
          /\ persistent_remove_failing(tree, db, held, "Serialization").err = "Serialization"
          /\ held \notin ItemsOf(persistent_remove_failing(tree, db, held,
                                                           "Serialization").tree)
    /\ \E rnds \in DrawsFor(tree, 1) :
          \E o \in {persistent_next_failing(tree, db, bias, rnds, TRUE, "Serialization")} :
              o.err = "Serialization" /\ o.tree # tree

\* o is what a persistent draw left when a store call of it returns Err(e):
\* the store has what the calls before the failing one wrote, the zeros of
\* handle_reset if it was the put_batch of the draw that failed after a reset.
DrawStoreAsWritten(o, ng, late, e) ==
    o.err = e => o.db = IF ng.reset /\ late THEN handle_reset(db, ng.tree) ELSE db

\* C29 as stated: in add, remove, next, next_n and unique_n of the persistent
\* shuffler the store is written only after the tree has been changed, so
\* that a call whose write fails leaves the tree the call without the failure
\* leaves.
C29_AsStated ==
    ~panicked =>
        \A late \in BOOLEAN :
            /\ \A item \in 1..MaxShuffled :
                  /\ \A r \in 0..U64Max :
                        \A o \in {persistent_add_failing(tree, db, new_items, item, r, "DB")} :
                            o.err = "DB" =>
                                o.tree = persistent_add(tree, db, new_items, item, r).tree
                  /\ \A o \in {persistent_remove_failing(tree, db, item, "DB")} :
                        o.err = "DB" => o.tree = persistent_remove(tree, db, item).tree
            /\ \A rnds \in DrawsFor(tree, 1) :
                  \A o \in {persistent_next_failing(tree, db, bias, rnds, TRUE, "DB")} :
                      o.err = "DB" => o.tree = persistent_next(tree, db, bias, rnds).tree
            /\ \A n \in 0..MaxDraws : \A rnds \in DrawsFor(tree, n) :
                  /\ \A o \in {persistent_next_n_failing(tree, db, bias, rnds, TRUE, "DB")} :
                        o.err = "DB" =>
                            o.tree = persistent_next_n(tree, db, bias, rnds).tree
                  /\ \A o \in {persistent_unique_n_failing(tree, db, bias, n, rnds, TRUE,
                                                            "DB")} :
                        o.err = "DB" =>
                            o.tree = persistent_unique_n(tree, db, bias, n, rnds).tree

\* C29, amended: in remove and the draws of the persistent shuffler each write
\* to the store is issued after the change of the tree it mirrors, so that a
\* call whose write fails leaves the tree changed and the store without the
\* write.  In add the write is issued before the insertion: an add whose
\* write fails leaves the tree without the item.
C29_WriteOrder ==
    ~panicked =>
        /\ \A item \in 1..MaxShuffled :
              /\ \A r \in 0..U64Max :
                    \A o \in {persistent_add_failing(tree, db, new_items, item, r, "DB")} :
                        /\ AddFailsBefore(o, "DB")
                        /\ item \notin ItemsOf(tree) =>
                              o.tree # persistent_add(tree, db, new_items, item, r).tree
              /\ \A o \in {persistent_remove_failing(tree, db, item, "DB")} :
                    /\ RemoveFailsAfter(o, item, "DB")
                    /\ o.tree = persistent_remove(tree, db, item).tree
        /\ \A ng \in {next_generation(tree)}, late \in BOOLEAN :
              /\ \A rnds \in DrawsFor(tree, 1) :
                    \A o \in {persistent_next_failing(tree, db, bias, rnds, late, "DB")} :
                        /\ DrawStoreAsWritten(o, ng, late, "DB")
                        /\ (late \/ ~ng.reset) =>
                              o.tree = persistent_next(tree, db, bias, rnds).tree
              /\ \A n \in 0..MaxDraws : \A rnds \in DrawsFor(tree, n) :
                    /\ \A o \in {persistent_next_n_failing(tree, db, bias, rnds, late,
                                                            "DB")} :
                          /\ DrawStoreAsWritten(o, ng, late, "DB")
                          /\ (late \/ ~ng.reset) =>
                                o.tree = persistent_next_n(tree, db, bias, rnds).tree
                    /\ \A o \in {persistent_unique_n_failing(tree, db, bias, n, rnds, late,
                                                              "DB")} :
                          /\ DrawStoreAsWritten(o, ng, late, "DB")
                          /\ (late \/ ~ng.reset) =>
                                o.tree = persistent_unique_n(tree, db, bias, n, rnds).tree

\* A remove has had its write fail: the store has a record of an item the
\* tree lacks.  An add of that item, its write failing, leaves the tree
\* without it, and a next, its write failing, leaves the tree changed and the
\* store as it was.
C29_Witness ==
    /\ ~panicked
    /\ \E item \in (1..MaxShuffled) \ ItemsOf(tree) :
          /\ db[to_vec(item)] # NoneVal
          /\ persistent_add_failing(tree, db, new_items, item, 0, "DB").err = "DB"
          /\ item \notin ItemsOf(persistent_add_failing(tree, db, new_items, item, 0,
                                                        "DB").tree)
    /\ \E rnds \in DrawsFor(tree, 1) :
          \E o \in {persistent_next_failing(tree, db, bias, rnds, TRUE, "DB")} :
              /\ o.err = "DB"
              /\ o.tree = persistent_next(tree, db, bias, rnds).tree
              /\ o.tree # tree
              /\ o.db = db

\* ---------------------------------------------------------------------------
\* Insert then delete
\* ---------------------------------------------------------------------------

\* The subtree at n as the tree draws it, whatever slots its nodes have:
\* nothing, or the left subtree, the item, the colour, the generation and the
\* right subtree.
RECURSIVE Shape(_, _)
Shape(a, n) ==
    IF n = None THEN << >>
    ELSE <<Shape(a, a[n].left), a[n].item, a[n].red, a[n].generation,
           Shape(a, a[n].right)>>

\* The items of the tree in order.
ItemSeq(t) == [k \in 1..Len(InOrder(t)) |-> t.arena[InOrder(t)[k]].item]

\* The tree after insert(x, g) and delete(x).
InsertedDeleted(t, x, g) == delete(insert(t, x, g).tree, x).tree

\* C31 as stated: for every item x not in the tree, inserting x and then
\* deleting x yields a tree of the same shape, with the same colour and the
\* same item and generation at every position.
C31_AsStated ==
    \A x \in Item \ ItemsOf(tree), g \in 0..MaxInsertGen :
        \A t \in {InsertedDeleted(tree, x, g)} :
            Shape(t.arena, t.root) = Shape(tree.arena, tree.root)

\* C31, amended: for every item x not in the tree, inserting x and then
\* deleting x yields a tree with the same items in the same order, every
\* item at the generation it had, the same size and the same generations();
\* the delete returns x.  Shape and colours may differ.
C31_InsertDelete ==
    \A x \in Item \ ItemsOf(tree), g \in 0..MaxInsertGen :
        /\ insert(tree, x, g).ret = TRUE
        /\ delete(insert(tree, x, g).tree, x).ret # NoneVal
        /\ \A t \in {InsertedDeleted(tree, x, g)} :
              /\ ItemSeq(t) = ItemSeq(tree)
              /\ Contents(t) = Contents(tree)
              /\ t.size = tree.size
              /\ size(t) = size(tree)
              /\ generations(t) = generations(tree)

\* A tree of three nodes, all at generation 0, the root with two red
\* children: inserting a fourth item at generation 1 and deleting it gives
\* back the items and generations, and generations() = (0, 0), in a tree
\* whose colours are not the ones it had.
C31_Witness ==
    /\ Len(InOrder(tree)) = 3
    /\ GensOf(tree) = {0}
    /\ \E x \in Item \ ItemsOf(tree) :
          \E t \in {InsertedDeleted(tree, x, 1)} :
              /\ Contents(t) = Contents(tree)
              /\ generations(t) = <<0, 0>>
              /\ generations(insert(tree, x, 1).tree) = <<0, 1>>
              /\ Shape(t.arena, t.root) # Shape(tree.arena, tree.root)

\* ---------------------------------------------------------------------------
\* find_next after a selection
\* ---------------------------------------------------------------------------

\* The tree once the node in slot n has been selected: it is stamped with
\* the largest generation of the tree plus one.
Selected(t, n) == [t EXCEPT !.arena = set_generation(@, n, generations(t)[2] + 1)]

\* find_next(index, g) on the tree t, where the ranks `eligible` have a
\* generation <= g, returns a node with generation <= g; selecting that node
\* and asking again returns another node if other nodes were eligible.
AnotherAfterSelection(t, index, g, eligible, first) ==
    /\ first.ok
    /\ t.arena[first.val].generation <= g
    /\ Cardinality(eligible) > 1 =>
          \A second \in {find_next(Selected(t, first.val), index, g)} :
              /\ second.ok
              /\ second.val # first.val
              /\ t.arena[second.val].generation <= g

\* C32 as stated: for every tree, index and bound g for which a node has a
\* generation <= g, find_next(index, g) returns a node with generation <= g,
\* and after that node is stamped with max_gen + 1 a second find_next(index,
\* g) returns a different node unless it was the only node with generation
\* <= g.
C32_AsStated ==
    (InOrder(tree) # << >> /\ MaxGen(tree) < U64Max) =>
        \A g \in 0..U64Max :
            \A eligible \in {Eligible(tree.arena, InOrder(tree), g)} :
                eligible # {} =>
                    \A index \in 0..(size(tree) - 1) :
                        AnotherAfterSelection(tree, index, g, eligible,
                                              find_next(tree, index, g))

\* C32, amended: the same for every bound g from min_gen to max_gen, the
\* bounds the shuffler draws; when the selected node was the only one with
\* generation <= g, the second find_next finds no node and panics.
C32_FindNextAfterSelection ==
    (InOrder(tree) # << >> /\ MaxGen(tree) < U64Max) =>
        \A g \in MinGen(tree)..MaxGen(tree) :
            \A eligible \in {Eligible(tree.arena, InOrder(tree), g)} :
                /\ eligible # {}
                /\ \A index \in 0..(size(tree) - 1) :
                      \A first \in {find_next(tree, index, g)} :
                          /\ AnotherAfterSelection(tree, index, g, eligible, first)
                          /\ Cardinality(eligible) = 1 =>
                                find_next(Selected(tree, first.val), index, g) = Panic

\* A full tree with generations 0 and 1: with bound 0 and an index past the
\* last node of generation 0 the first search wraps, and after the selection
\* the second search returns another node of generation 0.
C32_Witness ==
    /\ Len(InOrder(tree)) = MaxItems
    /\ GensOf(tree) = {0, 1}
    /\ \E index \in 0..(size(tree) - 1) :
          \E first \in {find_next(tree, index, 0)} :
              /\ first.ok
              /\ \A k \in Eligible(tree.arena, InOrder(tree), 0) : k < index + 1
              /\ Cardinality(Eligible(tree.arena, InOrder(tree), 0)) > 1
              /\ \E second \in {find_next(Selected(tree, first.val), index, 0)} :
                    /\ second.ok
                    /\ second.val # first.val
                    /\ Selected(tree, first.val).arena[first.val].generation = 2

\* ---------------------------------------------------------------------------
\* The links of the arena
\* ---------------------------------------------------------------------------

\* Slot c of the arena a is None or live.
LiveOrNone(a, c) == c \in 0..Len(a)

\* The slots of t whose node has no parent.
Parentless(t) == {n \in 1..Len(t.arena) : t.arena[n].parent = None}

\* Every node's index is its slot; its parent, left and right are None or
\* live slots; a child names its parent and a parent its child, on one side
\* only; the root is the one node without a parent, None in the empty tree.
ArenaLinked(t) ==
    /\ \A n \in 1..Len(t.arena) :
          \A nb \in {t.arena[n]} :
              /\ nb.index = n
              /\ LiveOrNone(t.arena, nb.parent)
              /\ LiveOrNone(t.arena, nb.left)
              /\ LiveOrNone(t.arena, nb.right)
              /\ nb.left # None => t.arena[nb.left].parent = n
              /\ nb.right # None => t.arena[nb.right].parent = n
              /\ nb.left # None => nb.left # nb.right
              /\ nb.parent # None =>
                    (t.arena[nb.parent].left = n) # (t.arena[nb.parent].right = n)
    /\ Parentless(t) = IF t.root = None THEN {} ELSE {t.root}
    /\ t.root = None <=> t.arena = << >>

\* C33: after any sequence of inserts and deletes, swap-remove moves of the
\* arena included, every node's index field equals its slot, every parent,
\* left and right index refers to a live slot, child and parent links are
\* reciprocal, and the root index refers to the one live node that has no
\* parent.
C33_ArenaLinked == ArenaLinked(tree)

\* A delete is about to move the root: the root sits in the last slot, and
\* deleting another item puts it, by the swap-remove, into the slot of that
\* item, with the root index following it and every link still in place.
C33_Witness ==
    /\ Len(tree.arena) >= 3
    /\ tree.root = Len(tree.arena)
    /\ \E item \in ItemsOf(tree) :
          \E t \in {delete(tree, item).tree} :
              /\ t.root # tree.root
              /\ t.arena[t.root].item = tree.arena[tree.root].item
              /\ t.arena[t.root].left # None
              /\ t.arena[t.root].right # None
              /\ ArenaLinked(t)

\* ---------------------------------------------------------------------------
\* No draw panics
\* ---------------------------------------------------------------------------

\* The bounds random_generation and random_generation_below hand to
\* find_next on the tree t, for the unit float u: one within [min_gen,
\* max_gen], the other, its assertion holding, within [min_gen, limit - 1];
\* with either find_next finds a node from every index below the size.
BoundsWithin(t, b, u) ==
    /\ random_generation(t, b, u) \in generations(t)[1]..generations(t)[2]
    /\ \A ng \in {next_generation(t)} :
          \A below \in {random_generation_below(ng.tree, ng.gen, b, u)} :
              /\ below.ok
              /\ below.val \in generations(ng.tree)[1]..(ng.gen - 1)
              /\ \A index \in 0..(size(t) - 1) :
                    /\ find_next(ng.tree, index, below.val).ok
                    /\ find_next(t, index, random_generation(t, b, u)).ok

\* C34: in every reachable state of the in-memory shuffler no call of next,
\* next_n(n) or unique_n(n) panics, whatever the bias and the random source:
\* the drawn index is below the size, the drawn bound lies within [min_gen,
\* max_gen], within [min_gen, g - 1] for unique_n, so that find_next finds a
\* node, and the assertion of random_generation_below holds.
C34_NoDrawPanics ==
    /\ ~panicked
    /\ \A b \in Biases :
          /\ \A rnds \in DrawsFor(tree, 1) : ~next(tree, b, rnds).panic
          /\ \A n \in 0..MaxDraws : \A rnds \in DrawsFor(tree, n) :
                /\ ~next_n(tree, b, rnds).panic
                /\ ~unique_n(tree, b, n, rnds).panic
          /\ size(tree) > 0 => \A u \in RndUnits : BoundsWithin(tree, b, u)

\* Three items over two generations: with bias 0 the offset computed is
\* above the span and is clamped, and unique_n(2), both draws at the same
\* index and the second taken after the first stamp has raised max_gen to the
\* limit, returns two different items.
C34_Witness ==
    /\ ~panicked
    /\ size(tree) = MaxShuffled
    /\ generations(tree)[1] < generations(tree)[2]
    /\ biased_offset(generations(tree)[2] - generations(tree)[1] + 1, "0", 0)
          > generations(tree)[2] - generations(tree)[1]
    /\ \E rnd \in Rnd(size(tree)) :
          \E o \in {unique_n(tree, "0", 2, <<rnd, rnd>>)} :
              /\ ~o.panic
              /\ o.ret # NoneVal
              /\ o.ret[1][1] # o.ret[1][2]
              /\ generations(o.tree)[2] = generations(tree)[2] + 1

\* ---------------------------------------------------------------------------
\* Persistent add of an item already held
\* ---------------------------------------------------------------------------

\* C35: a persistent add of an item that is already in the tree returns
\* false and leaves the item's record equal to its generation in the tree:
\* store and tree still agree on the item after the call.
C35_AddOfHeldKeepsRecord ==
    ~panicked =>
        \A item \in ItemsOf(tree) :
            get(db, item) = Some(GenerationOf(tree, item)) =>
                \A r \in 0..U64Max :
                    \A o \in {persistent_add(tree, db, new_items, item, r)} :
                        /\ o.ret = FALSE
                        /\ o.tree = tree
                        /\ get(o.db, item) = Some(GenerationOf(o.tree, item))

\* ---------------------------------------------------------------------------
\* The generations handed out over a run
\* ---------------------------------------------------------------------------

\* The items of t whose generation in u is not the one they have in t.
Restamped(t, u) ==
    {i \in ItemsOf(t) \cap ItemsOf(u) : GenerationOf(u, i) # GenerationOf(t, i)}

\* C36 as stated, on a draw, a remove and a draw: with no overflow reset, the
\* generation the later draw stamps is strictly greater than the generation
\* the earlier draw stamped, whatever is removed in between.
C36_AsStated ==
    (~panicked /\ ItemsOf(tree) # {} /\ MaxGen(tree) < U64Max) =>
        \A rnds \in DrawsFor(tree, 1) :
            \A first \in {next(tree, bias, rnds)} :
                \A item \in ItemsOf(tree) :
                    \A mid \in {remove(first.tree, item).tree} :
                        (ItemsOf(mid) # {} /\ MaxGen(mid) < U64Max) =>
                            \A again \in DrawsFor(mid, 1) :
                                \A second \in {next(mid, bias, again)} :
                                    StampOf(second) > StampOf(first)

\* C36, amended: in every step of a run that starts with the largest
\* generation below u64::MAX, a draw stamps the items it selects with the
\* largest generation of the tree plus one, above every generation in the
\* tree, and an add leaves the largest generation and every other item's
\* generation as they are; so over add and draw operations the generation
\* handed out strictly increases from draw to draw.  Only a remove lowers the
\* largest generation.
C36_StampsIncrease ==
    [][(~panicked' /\ CurrentMax(tree) < U64Max) =>
          /\ ItemsOf(tree') = ItemsOf(tree) =>
                \A i \in Restamped(tree, tree') :
                    /\ GenerationOf(tree', i) = CurrentMax(tree) + 1
                    /\ CurrentMax(tree') = CurrentMax(tree) + 1
          /\ (ItemsOf(tree) \subseteq ItemsOf(tree') /\ ItemsOf(tree') # ItemsOf(tree)) =>
                /\ CurrentMax(tree') = CurrentMax(tree)
                /\ Restamped(tree, tree') = {}
          /\ CurrentMax(tree') < CurrentMax(tree) =>
                (ItemsOf(tree') \subseteq ItemsOf(tree) /\ ItemsOf(tree') # ItemsOf(tree))
      ]_vars

\* Three items at the generations 0, 1 and 2: two draws have handed out 1
\* and then 2, and removing the item at 2 leaves a tree on which the next
\* draw hands out 2 again.
C36_Witness ==
    /\ ~panicked
    /\ size(tree) = MaxShuffled
    /\ GensOf(tree) = {0, 1, U64Max}
    /\ \E item \in ItemsOf(tree) :
          /\ GenerationOf(tree, item) = U64Max
          /\ \E mid \in {remove(tree, item).tree} :
                \E rnds \in DrawsFor(mid, 1) :
                    StampOf(next(mid, bias, rnds)) = U64Max

\* ---------------------------------------------------------------------------
\* An open that fails
\* ---------------------------------------------------------------------------

\* o is what an open of the store d left: if it failed, the store is as it
\* was and no shuffler was made.
FailedOpenKeepsStore(d, o) == o.err # NoError => (o.db = d /\ o.tree = EmptyTree)

\* C37: if opening a persistent shuffler fails, with a deserialization error
\* under remove_on_deserialization_error = false, a read error of the store
\* or a serialization error of a new item, no record of the store has been
\* written or deleted by that open.
C37_FailedOpenKeepsStore ==
    \A items \in ValidLists :
        /\ \A keep_unrecognized \in BOOLEAN :
              \A o \in {load_all(db, new_items, FALSE, keep_unrecognized, items,
                                 [n \in 1..MaxShuffled |-> n], NoWords)} :
                  /\ FailedOpenKeepsStore(db, o)
                  /\ o.err = NoError <=> AllDecode(db)
        /\ \A remove_error \in BOOLEAN :
              /\ \A k \in 1..Len(KeyOrder) :
                    \A o \in {load_all_read_error(db, remove_error, items, k)} :
                        o.err # NoError /\ FailedOpenKeepsStore(db, o)
              /\ items # NoneVal =>
                    \A bad \in items[1], keep_unrecognized \in BOOLEAN, order \in Orders :
                        \A o \in {load_all_unencodable(db, new_items, remove_error,
                                                       keep_unrecognized, items, order,
                                                       NoWords, bad)} :
                            /\ FailedOpenKeepsStore(db, o)
                            /\ (o.err = NoError) = (/\ bad \in Decodable(db)
                                                    /\ remove_error \/ AllDecode(db))

\* The store holds a record of an item the list does not name, an undecodable
\* record and no record of two items the list names: with
\* remove_on_deserialization_error = true the scan schedules two deletions,
\* the first new item is put in the batch, the second cannot be encoded, and
\* the open fails with the store as it was; the same open without the failure
\* changes the store.
C37_Witness ==
    /\ ~AllDecode(db)
    /\ \E V \in SUBSET (1..MaxShuffled) :
          \E i \in V, bad \in V, k \in (1..MaxShuffled) \ V :
              /\ i < bad
              /\ db[to_vec(i)] = NoneVal
              /\ db[to_vec(bad)] = NoneVal
              /\ db[to_vec(k)] # NoneVal
              /\ load_all_unencodable(db, new_items, TRUE, FALSE, Some(V),
                                      [n \in 1..MaxShuffled |-> n], NoWords, bad)
                    = Failed(EmptyTree, db, "Serialization")
              /\ load_all(db, new_items, TRUE, FALSE, Some(V),
                          [n \in 1..MaxShuffled |-> n], NoWords).err = NoError
              /\ load_all(db, new_items, TRUE, FALSE, Some(V),
                          [n \in 1..MaxShuffled |-> n], NoWords).db # db

====
